---- MODULE Spec2Model ----
(***************************************************************************)
(* SafeWalk routing core of backend/engines/dijkstra.py (and its copy      *)
(* backend/app/services/dijkstra.py): the snapshot builder, the Dijkstra   *)
(* search with early exit and lazy deletion, and the path reconstruction,  *)
(* run against a document store of intersections and streets.              *)
(*                                                                         *)
(* Numbers.  distance_m, danger_score and every cost are fixed-point       *)
(* integers counting 0.00001 (1e-5): 5.0 is 500000, the floor 0.01 is      *)
(* 1000, and the 4-decimal rounding of the result is a rounding to a       *)
(* multiple of 10.                                                         *)
(***************************************************************************)
EXTENDS Integers, Sequences, FiniteSets, TLC

\* ------------------------------------------------------------------------
\* Bounds of the model
\* ------------------------------------------------------------------------

\* Largest number of street documents in a generated store.
MaxEdges == 3

\* ------------------------------------------------------------------------
\* Values
\* ------------------------------------------------------------------------

\* Identifiers a request may name.
Ids == {"A", "B", "C", "D"}

Modes == {"safest", "shortest"}

\* The concurrent request slots.
Procs == {"r1"}

\* Python's None in the predecessor map.
None == "None"

\* weight = max(weight, 0.01)
MinWeight == 1000

\* location.coordinates of the intersection documents, [lng, lat].
Location(n) ==
    CASE n = "A" -> <<-917713, 379554>>
      [] n = "B" -> <<-917743, 379554>>
      [] n = "C" -> <<-917713, 379530>>
      [] OTHER   -> <<-917743, 379530>>

\* dict.get(key, default)
Get(doc, key, default) == IF key \in DOMAIN doc THEN doc[key] ELSE default

Max(x, y) == IF x >= y THEN x ELSE y

\* ------------------------------------------------------------------------
\* Store contents
\* ------------------------------------------------------------------------

\* Street documents of the generated stores, whose intersections are A, B, C.
\* The store is schemaless and keeps no reference between its collections:
\* a document may lack the optional flags, may carry a score or a length of 0
\* or below, and may name an endpoint ("D") that has no intersection document.
EdgePool ==
    { [name |-> "Pine St", start_intersection_id |-> "A", end_intersection_id |-> "B",
       distance_m |-> 27000003, danger_score |-> 500000,
       bidirectional |-> TRUE, is_accessible |-> TRUE],
      [name |-> "State St", start_intersection_id |-> "B", end_intersection_id |-> "C",
       distance_m |-> 28000000, danger_score |-> 0,
       bidirectional |-> TRUE, is_accessible |-> FALSE],
      [name |-> "Rolla St", start_intersection_id |-> "A", end_intersection_id |-> "C",
       distance_m |-> 55000003, danger_score |-> 1000000,
       bidirectional |-> FALSE],
      [name |-> "10th St", start_intersection_id |-> "C", end_intersection_id |-> "A",
       distance_m |-> 3, danger_score |-> -100000,
       is_accessible |-> TRUE],
      [name |-> "12th St", start_intersection_id |-> "C", end_intersection_id |-> "D",
       distance_m |-> 1000000, danger_score |-> 0,
       bidirectional |-> FALSE, is_accessible |-> TRUE],
      [name |-> "Main St", start_intersection_id |-> "B", end_intersection_id |-> "B",
       distance_m |-> 1000000, danger_score |-> 0,
       bidirectional |-> TRUE, is_accessible |-> TRUE],
      [name |-> "Main Street", start_intersection_id |-> "D", end_intersection_id |-> "B",
       distance_m |-> 13255557, danger_score |-> 2000000,
       bidirectional |-> FALSE, is_accessible |-> TRUE] }

\* The 4-node scenario: A-B (280, 5), A-C (270, 10), B-D (270, 15), C-D (280, 8),
\* all bidirectional; bdAccessible is the is_accessible flag of B-D.
Street(name, a, b, dist, danger, accessible) ==
    [name |-> name, start_intersection_id |-> a, end_intersection_id |-> b,
     distance_m |-> dist, danger_score |-> danger,
     bidirectional |-> TRUE, is_accessible |-> accessible]

ScenarioStreets(bdAccessible) ==
    << Street("Pine St", "A", "B", 28000000, 500000, TRUE),
       Street("Rolla St", "A", "C", 27000000, 1000000, TRUE),
       Street("State St", "B", "D", 27000000, 1500000, bdAccessible),
       Street("10th St", "C", "D", 28000000, 800000, TRUE) >>

Intersections(S) == [n \in S |-> Location(n)]

\* All sequences over S of length at most n.
SeqsUpTo(S, n) == UNION { [1..k -> S] : k \in 0..n }

\* ------------------------------------------------------------------------
\* build_adjacency_list
\* ------------------------------------------------------------------------

\* Weight with the two fields exchanged.
WeightSwapped(edge, mode) ==
    Max(IF mode = "safest" THEN edge.distance_m ELSE edge.danger_score, MinWeight)

\* Weight without the floor.
WeightNoFloor(edge, mode) ==
    IF mode = "safest" THEN edge.danger_score ELSE edge.distance_m

\* weight = edge["danger_score"] if mode == "safest" else edge["distance_m"];
\* weight = max(weight, 0.01)
Weight(edge, mode) ==
    Max(IF mode = "safest" THEN edge.danger_score ELSE edge.distance_m, MinWeight)

\* adj.setdefault(k, [])
SetDefault(adj, k) == IF k \in DOMAIN adj THEN adj ELSE adj @@ (k :> <<>>)

\* adj.setdefault(k, []).append(arc)
AppendArc(adj, k, arc) ==
    LET a == SetDefault(adj, k) IN [a EXCEPT ![k] = Append(@, arc)]

\* Excluded with a street that lacks the flag taken as inaccessible.
ExcludedWhenMissing(edge, ada) == ada /\ ~Get(edge, "is_accessible", FALSE)

\* if ada_required and not edge.get("is_accessible", True)
Excluded(edge, ada) == ada /\ ~Get(edge, "is_accessible", TRUE)

\* AddEdge without the continue: an excluded street is counted and still added.
AddEdgeNoContinue(snap, edge, i, mode, ada) ==
    LET w    == Weight(edge, mode)
        st   == edge.start_intersection_id
        en   == edge.end_intersection_id
        adj1 == AppendArc(snap.adj, st, <<en, w, i>>)
        adj2 == IF Get(edge, "bidirectional", TRUE)
                THEN AppendArc(adj1, en, <<st, w, i>>)
                ELSE adj1
    IN  [snap EXCEPT !.adj = adj2,
                     !.hazards_bypassed = IF Excluded(edge, ada) THEN @ + 1 ELSE @]

\* AddEdge with the reverse arc appended whatever the bidirectional flag says.
AddEdgeBothWays(snap, edge, i, mode, ada) ==
    IF Excluded(edge, ada)
    THEN [snap EXCEPT !.hazards_bypassed = @ + 1]
    ELSE LET w    == Weight(edge, mode)
             st   == edge.start_intersection_id
             en   == edge.end_intersection_id
             adj1 == AppendArc(snap.adj, st, <<en, w, i>>)
         IN  [snap EXCEPT !.adj = AppendArc(adj1, en, <<st, w, i>>)]

\* AddEdge with the reverse arc weighted by the field as stored, unclamped.
AddEdgeReverseRaw(snap, edge, i, mode, ada) ==
    IF Excluded(edge, ada)
    THEN [snap EXCEPT !.hazards_bypassed = @ + 1]
    ELSE LET w    == Weight(edge, mode)
             st   == edge.start_intersection_id
             en   == edge.end_intersection_id
             adj1 == AppendArc(snap.adj, st, <<en, w, i>>)
             adj2 == IF Get(edge, "bidirectional", TRUE)
                     THEN AppendArc(adj1, en, <<st, WeightNoFloor(edge, mode), i>>)
                     ELSE adj1
         IN  [snap EXCEPT !.adj = adj2]

\* One iteration of the loop over the street documents; i is the position of
\* the document in the read and stands for the edge reference kept in the arc.
AddEdge(snap, edge, i, mode, ada) ==
    IF Excluded(edge, ada)
    THEN [snap EXCEPT !.hazards_bypassed = @ + 1]
    ELSE LET w    == Weight(edge, mode)
             st   == edge.start_intersection_id
             en   == edge.end_intersection_id
             adj1 == AppendArc(snap.adj, st, <<en, w, i>>)
             adj2 == IF Get(edge, "bidirectional", TRUE)
                     THEN AppendArc(adj1, en, <<st, w, i>>)
                     ELSE adj1
         IN  [snap EXCEPT !.adj = adj2]

\* The loop over the intersection documents.
ReadIntersections(docs) ==
    [adj |-> [n \in DOMAIN docs |-> <<>>],
     coords |-> docs,
     hazards_bypassed |-> 0]

RECURSIVE ReadStreets(_, _, _, _, _)
ReadStreets(snap, docs, i, mode, ada) ==
    IF i > Len(docs) THEN snap
    ELSE ReadStreets(AddEdge(snap, docs[i], i, mode, ada), docs, i + 1, mode, ada)

build_adjacency_list(nodeDocs, streetDocs, mode, ada) ==
    ReadStreets(ReadIntersections(nodeDocs), streetDocs, 1, mode, ada)

\* ------------------------------------------------------------------------
\* heapq over _QueueItem (ordered by cost alone)
\* ------------------------------------------------------------------------

QueueItem(cost, node) == [cost |-> cost, node_id |-> node]

\* _QueueItem.__lt__: dataclass(order=True) with node_id excluded
ItemLt(x, y) == x.cost < y.cost

\* heapq._siftdown, positions counted from 1
RECURSIVE SiftDown(_, _, _, _)
SiftDown(heap, startpos, pos, newitem) ==
    IF pos > startpos /\ ItemLt(newitem, heap[pos \div 2])
    THEN SiftDown([heap EXCEPT ![pos] = heap[pos \div 2]], startpos, pos \div 2, newitem)
    ELSE [heap EXCEPT ![pos] = newitem]

\* heapq._siftup, positions counted from 1
RECURSIVE SiftUp(_, _, _, _)
SiftUp(heap, startpos, pos, newitem) ==
    LET childpos == 2 * pos
        rightpos == childpos + 1
        c == IF rightpos <= Len(heap) /\ ~ItemLt(heap[childpos], heap[rightpos])
             THEN rightpos ELSE childpos
    IN  IF childpos <= Len(heap)
        THEN SiftUp([heap EXCEPT ![pos] = heap[c]], startpos, c, newitem)
        ELSE SiftDown([heap EXCEPT ![pos] = newitem], startpos, pos, newitem)

\* heapq.heappush
HeapPush(heap, item) ==
    LET h == Append(heap, item) IN SiftDown(h, 1, Len(h), item)

\* list.pop() for heapq.heappop: the last item of the list, not the least.
HeapPopLast(heap) ==
    [item |-> heap[Len(heap)], heap |-> SubSeq(heap, 1, Len(heap) - 1)]

\* heapq.heappop on a non-empty heap: the item returned and the heap left
HeapPop(heap) ==
    LET lastelt == heap[Len(heap)]
        rest    == SubSeq(heap, 1, Len(heap) - 1)
    IN  IF rest # <<>>
        THEN [item |-> rest[1], heap |-> SiftUp(rest, 1, 1, lastelt)]
        ELSE [item |-> lastelt, heap |-> rest]

\* ------------------------------------------------------------------------
\* compute_route: the search
\* ------------------------------------------------------------------------

\* Stale with >= for >.
StaleOrEqual(item, dist) == item.node_id \in DOMAIN dist /\ item.cost >= dist[item.node_id]

\* A staleness test that lets every entry through.
NeverStale(item, dist) == item.node_id \in DOMAIN dist /\ item.cost > item.cost

\* item.cost > dist.get(u, float("inf"))
Stale(item, dist) == item.node_id \in DOMAIN dist /\ item.cost > dist[item.node_id]

\* Improves with <= for <: an equal cost counts as an improvement.
ImprovesOrEqual(new_cost, dist, neighbour) ==
    neighbour \notin DOMAIN dist \/ new_cost <= dist[neighbour]

\* new_cost < dist.get(neighbour, float("inf"))
Improves(new_cost, dist, neighbour) ==
    neighbour \notin DOMAIN dist \/ new_cost < dist[neighbour]

\* d[k] = v
Put(d, k, v) == IF k \in DOMAIN d THEN [d EXCEPT ![k] = v] ELSE d @@ (k :> v)

\* One iteration of the loop over adj.get(u, []): s holds dist, prev and pq.
RelaxArc(s, u, arc) ==
    LET neighbour == arc[1]
        new_cost  == s.dist[u] + arc[2]
    IN  IF Improves(new_cost, s.dist, neighbour)
        THEN [dist |-> Put(s.dist, neighbour, new_cost),
              prev |-> Put(s.prev, neighbour, u),
              pq   |-> HeapPush(s.pq, QueueItem(new_cost, neighbour))]
        ELSE s

RECURSIVE RelaxAll(_, _, _, _)
RelaxAll(s, u, arcs, k) ==
    IF k > Len(arcs) THEN s
    ELSE RelaxAll(RelaxArc(s, u, arcs[k]), u, arcs, k + 1)

\* SearchInit without the predecessor entry of the origin.
SearchInitNoPrev(origin) ==
    [dist |-> (origin :> 0), prev |-> <<>>, pq |-> <<QueueItem(0, origin)>>]

\* The search state at the start of the loop.
SearchInit(origin) ==
    [dist |-> (origin :> 0), prev |-> (origin :> None),
     pq |-> <<QueueItem(0, origin)>>]

\* ------------------------------------------------------------------------
\* compute_route: the result
\* ------------------------------------------------------------------------

RECURSIVE Reverse(_)
Reverse(seq) ==
    IF seq = <<>> THEN <<>> ELSE Append(Reverse(Tail(seq)), Head(seq))

\* while current is not None: path_ids.append(current); current = prev.get(current)
RECURSIVE WalkBack(_, _, _)
WalkBack(prev, current, path_ids) ==
    IF current = None THEN path_ids
    ELSE WalkBack(prev, Get(prev, current, None), Append(path_ids, current))

\* PathIds without the reverse.
PathIdsUnreversed(prev, destination) == WalkBack(prev, destination, <<>>)

PathIds(prev, destination) == Reverse(WalkBack(prev, destination, <<>>))

\* round(x, 4) of a non-negative cost: the nearest multiple of 0.0001, a tie
\* going to the even one.
Round4(x) ==
    LET q == x \div 10
        r == x % 10
    IN  IF r < 5 THEN 10 * q
        ELSE IF r > 5 THEN 10 * (q + 1)
        ELSE IF q % 2 = 0 THEN 10 * q ELSE 10 * (q + 1)

NoResult ==
    [kind |-> "none", error |-> "", msg |-> <<>>, path |-> <<>>, coordinates |-> <<>>,
     total_cost |-> 0, mode |-> "", ada_required |-> FALSE, hazards_bypassed |-> 0]

Raised(error, msg) == [NoResult EXCEPT !.kind = "raised", !.error = error, !.msg = msg]

\* raise ValueError(f"Origin node '{origin}' not found in graph")
OriginNotFound(origin) ==
    Raised("ValueError", <<"Origin node", origin, "not found in graph">>)

\* raise ValueError(f"Destination node '{destination}' not found in graph")
DestinationNotFound(destination) ==
    Raised("ValueError", <<"Destination node", destination, "not found in graph">>)

\* raise ValueError(f"No path between '{origin}' and '{destination}'")
NoPath(origin, destination) ==
    Raised("ValueError", <<"No path between", origin, "and", destination>>)

\* Lines 115-140: r is the request with its snapshot and the maps of the search.
RouteResult(r) ==
    IF r.destination \notin DOMAIN r.prev
    THEN NoPath(r.origin, r.destination)
    ELSE LET path_ids == PathIds(r.prev, r.destination)
             missing  == { k \in 1..Len(path_ids) : path_ids[k] \notin DOMAIN r.coords }
         IN  IF missing # {}
             THEN \* coords[nid] of an id without an intersection document
                  Raised("KeyError", <<path_ids[CHOOSE k \in missing :
                                                \A j \in missing : k <= j]>>)
             ELSE [kind |-> "returned", error |-> "", msg |-> <<>>,
                   path |-> path_ids,
                   coordinates |-> [k \in 1..Len(path_ids) |-> r.coords[path_ids[k]]],
                   total_cost |-> Round4(r.dist[r.destination]),
                   mode |-> r.mode,
                   ada_required |-> r.ada_required,
                   hazards_bypassed |-> r.hazards_bypassed]

\* route_safewalk: the HTTP status the handler answers with.
HttpStatus(out) ==
    IF out.kind = "returned" THEN 200
    ELSE IF out.error = "ValueError" THEN 404 ELSE 500

\* ------------------------------------------------------------------------
\* compute_route as a whole, on one read of the store
\* ------------------------------------------------------------------------

\* The while loop, from search state s to the state it leaves.
RECURSIVE SearchLoop(_, _, _)
SearchLoop(s, adj, destination) ==
    IF s.pq = <<>> THEN s
    ELSE LET popped == HeapPop(s.pq)
             u      == popped.item.node_id
             rest   == [s EXCEPT !.pq = popped.heap]
         IN  IF u = destination THEN rest
             ELSE IF Stale(popped.item, s.dist) THEN SearchLoop(rest, adj, destination)
             ELSE SearchLoop(RelaxAll(rest, u, Get(adj, u, <<>>), 1), adj, destination)

compute_route(nodeDocs, streetDocs, origin, destination, mode, ada) ==
    LET snap == build_adjacency_list(nodeDocs, streetDocs, mode, ada)
    IN  IF origin \notin DOMAIN snap.adj THEN OriginNotFound(origin)
        ELSE IF destination \notin DOMAIN snap.adj THEN DestinationNotFound(destination)
        ELSE LET s == SearchLoop(SearchInit(origin), snap.adj, destination)
             IN  RouteResult([origin |-> origin, destination |-> destination,
                              mode |-> mode, ada_required |-> ada,
                              coords |-> snap.coords,
                              hazards_bypassed |-> snap.hazards_bypassed,
                              dist |-> s.dist, prev |-> s.prev])

\* ------------------------------------------------------------------------
\* State
\* ------------------------------------------------------------------------

VARIABLES
    intersections,  \* the intersections collection: id -> location.coordinates
    streets,        \* the streets collection, in the order find() yields it
    rq,             \* per request slot: arguments, snapshot, search state, outcome
    bq,             \* per incident slot: pattern, severity, cursor, count, outcome
    clock,          \* datetime.now(): the number of writes the store has taken
    held,           \* history: per street, every record the store has held for it
    ledger,         \* the ledger collection, in the order of the inserts
    sq              \* per SOS or ledger request slot: position, locals, outcome

vars == <<intersections, streets, rq, bq, clock, held, ledger, sq>>

\* The part of the state a route request never assigns.
store == <<intersections, streets, bq, clock, held, ledger, sq>>

IdleRequest ==
    [pc |-> "idle", origin |-> None, destination |-> None, mode |-> "safest",
     ada_required |-> FALSE,
     adj |-> <<>>, coords |-> <<>>, hazards_bypassed |-> 0,
     dist |-> <<>>, prev |-> <<>>, pq |-> <<>>, relaxed |-> <<>>,
     item |-> QueueItem(0, None), out |-> NoResult, http |-> 0]

\* Stores: up to MaxEdges street documents over the intersections A, B, C; the
\* store without any document; the 4-node scenario with B-D accessible or not.
Stores ==
    { [nodes |-> Intersections({"A", "B", "C"}), edges |-> e] :
          e \in SeqsUpTo(EdgePool, MaxEdges) }
    \cup { [nodes |-> Intersections({}), edges |-> <<>>] }
    \cup { [nodes |-> Intersections({"A", "B", "C", "D"}), edges |-> ScenarioStreets(acc)] :
          acc \in BOOLEAN }

Init ==
    /\ \E st \in Stores : intersections = st.nodes /\ streets = st.edges
    /\ rq = [p \in Procs |-> IdleRequest]
    /\ bq = <<>>
    /\ clock = 0
    /\ ledger = <<>>
    /\ sq = <<>>
    /\ held = [i \in 1..Len(streets) |-> {streets[i]}]

\* ------------------------------------------------------------------------
\* Actions
\* ------------------------------------------------------------------------

\* POST /api/route/safewalk: compute_route(origin, destination, mode, ada_required)
RouteRequest(p, origin, destination, mode, ada) ==
    /\ rq[p].pc = "idle"
    /\ rq' = [rq EXCEPT ![p] = [@ EXCEPT !.pc = "nodes", !.origin = origin,
                                         !.destination = destination, !.mode = mode,
                                         !.ada_required = ada]]
    /\ UNCHANGED store

\* async for doc in intersections_col().find()
ReadNodes(p) ==
    /\ rq[p].pc = "nodes"
    /\ LET snap == ReadIntersections(intersections)
       IN  rq' = [rq EXCEPT ![p] = [@ EXCEPT !.pc = "streets", !.adj = snap.adj,
                                             !.coords = snap.coords,
                                             !.hazards_bypassed = snap.hazards_bypassed]]
    /\ UNCHANGED store

\* ReadEdges that writes the clamped score of every street back to the store.
ReadEdgesWritingBack(p) ==
    /\ rq[p].pc = "streets"
    /\ LET r    == rq[p]
           snap == ReadStreets([adj |-> r.adj, coords |-> r.coords,
                                hazards_bypassed |-> r.hazards_bypassed],
                               streets, 1, r.mode, r.ada_required)
       IN  rq' = [rq EXCEPT ![p] = [@ EXCEPT !.pc = "check", !.adj = snap.adj,
                                             !.hazards_bypassed = snap.hazards_bypassed]]
    /\ streets' = [i \in 1..Len(streets) |->
                      [streets[i] EXCEPT !.danger_score = Max(@, MinWeight)]]
    /\ UNCHANGED <<intersections, bq, clock, held, ledger, sq>>

\* async for edge in streets_col().find()
ReadEdges(p) ==
    /\ rq[p].pc = "streets"
    /\ LET r    == rq[p]
           snap == ReadStreets([adj |-> r.adj, coords |-> r.coords,
                                hazards_bypassed |-> r.hazards_bypassed],
                               streets, 1, r.mode, r.ada_required)
       IN  rq' = [rq EXCEPT ![p] = [@ EXCEPT !.pc = "check", !.adj = snap.adj,
                                             !.hazards_bypassed = snap.hazards_bypassed]]
    /\ UNCHANGED store

\* OriginMissing without the raise: the search starts from the unknown origin.
OriginMissingIgnored(p) ==
    /\ rq[p].pc = "check"
    /\ rq[p].origin \notin DOMAIN rq[p].adj
    /\ LET s == SearchInit(rq[p].origin)
       IN  rq' = [rq EXCEPT ![p] = [@ EXCEPT !.pc = "search", !.dist = s.dist,
                                             !.prev = s.prev, !.pq = s.pq]]
    /\ UNCHANGED store

\* if origin not in adj: raise
OriginMissing(p) ==
    /\ rq[p].pc = "check"
    /\ rq[p].origin \notin DOMAIN rq[p].adj
    /\ rq' = [rq EXCEPT ![p] = [@ EXCEPT !.pc = "done",
                                         !.out = OriginNotFound(rq[p].origin)]]
    /\ UNCHANGED store

\* if destination not in adj: raise
DestinationMissing(p) ==
    /\ rq[p].pc = "check"
    /\ rq[p].origin \in DOMAIN rq[p].adj
    /\ rq[p].destination \notin DOMAIN rq[p].adj
    /\ rq' = [rq EXCEPT ![p] = [@ EXCEPT !.pc = "done",
                                         !.out = DestinationNotFound(rq[p].destination)]]
    /\ UNCHANGED store

\* dist = {origin: 0.0}; prev = {origin: None}; pq = [_QueueItem(0.0, origin)]
StartSearch(p) ==
    /\ rq[p].pc = "check"
    /\ rq[p].origin \in DOMAIN rq[p].adj
    /\ rq[p].destination \in DOMAIN rq[p].adj
    /\ LET s == SearchInit(rq[p].origin)
       IN  rq' = [rq EXCEPT ![p] = [@ EXCEPT !.pc = "search", !.dist = s.dist,
                                             !.prev = s.prev, !.pq = s.pq]]
    /\ UNCHANGED store

\* while pq: the queue is empty
QueueEmpty(p) ==
    /\ rq[p].pc = "search"
    /\ rq[p].pq = <<>>
    /\ rq' = [rq EXCEPT ![p] = [@ EXCEPT !.pc = "rebuild"]]
    /\ UNCHANGED store

\* item = heappop(pq); if u == destination: break
PopDestination(p) ==
    /\ rq[p].pc = "search"
    /\ rq[p].pq # <<>>
    /\ LET popped == HeapPop(rq[p].pq)
       IN  /\ popped.item.node_id = rq[p].destination
           /\ rq' = [rq EXCEPT ![p] = [@ EXCEPT !.pc = "rebuild", !.pq = popped.heap,
                                                 !.item = popped.item]]
    /\ UNCHANGED store

\* PopStale reading the top of the queue without removing it.
PopStaleKeeping(p) ==
    /\ rq[p].pc = "search"
    /\ rq[p].pq # <<>>
    /\ LET popped == HeapPop(rq[p].pq)
       IN  /\ popped.item.node_id # rq[p].destination
           /\ Stale(popped.item, rq[p].dist)
           /\ rq' = [rq EXCEPT ![p] = [@ EXCEPT !.item = popped.item]]
    /\ UNCHANGED store

\* item = heappop(pq); if item.cost > dist.get(u, inf): continue
PopStale(p) ==
    /\ rq[p].pc = "search"
    /\ rq[p].pq # <<>>
    /\ LET popped == HeapPop(rq[p].pq)
       IN  /\ popped.item.node_id # rq[p].destination
           /\ Stale(popped.item, rq[p].dist)
           /\ rq' = [rq EXCEPT ![p] = [@ EXCEPT !.pq = popped.heap, !.item = popped.item]]
    /\ UNCHANGED store

\* PopRelax on an adjacency map that all requests share: every request that
\* is searching goes on with the map of this one.
PopRelaxShared(p) ==
    /\ rq[p].pc = "search"
    /\ rq[p].pq # <<>>
    /\ LET popped == HeapPop(rq[p].pq)
           u      == popped.item.node_id
           s      == RelaxAll([dist |-> rq[p].dist, prev |-> rq[p].prev,
                               pq |-> popped.heap],
                              u, Get(rq[p].adj, u, <<>>), 1)
       IN  /\ u # rq[p].destination
           /\ ~Stale(popped.item, rq[p].dist)
           /\ rq' = [o \in DOMAIN rq |->
                       IF o = p
                       THEN [rq[o] EXCEPT !.dist = s.dist, !.prev = s.prev,
                                          !.pq = s.pq, !.item = popped.item,
                                          !.relaxed = Append(@, u)]
                       ELSE IF rq[o].pc = "search"
                       THEN [rq[o] EXCEPT !.adj = rq[p].adj]
                       ELSE rq[o]]
    /\ UNCHANGED store

\* item = heappop(pq); for neighbour, weight, _edge in adj.get(u, []): relax
PopRelax(p) ==
    /\ rq[p].pc = "search"
    /\ rq[p].pq # <<>>
    /\ LET popped == HeapPop(rq[p].pq)
           u      == popped.item.node_id
           s      == RelaxAll([dist |-> rq[p].dist, prev |-> rq[p].prev,
                               pq |-> popped.heap],
                              u, Get(rq[p].adj, u, <<>>), 1)
       IN  /\ u # rq[p].destination
           /\ ~Stale(popped.item, rq[p].dist)
           /\ rq' = [rq EXCEPT ![p] = [@ EXCEPT !.dist = s.dist, !.prev = s.prev,
                                                 !.pq = s.pq, !.item = popped.item,
                                                 !.relaxed = Append(@, u)]]
    /\ UNCHANGED store

\* Lines 115-140: raise "No path", or rebuild the path and return the result
Reconstruct(p) ==
    /\ rq[p].pc = "rebuild"
    /\ rq' = [rq EXCEPT ![p] = [@ EXCEPT !.pc = "done", !.out = RouteResult(rq[p])]]
    /\ UNCHANGED store

\* route_safewalk answers: the result, 404 for a ValueError, 500 otherwise
Respond(p) ==
    /\ rq[p].pc = "done"
    /\ rq' = [rq EXCEPT ![p] = [@ EXCEPT !.pc = "responded",
                                         !.http = HttpStatus(rq[p].out)]]
    /\ UNCHANGED store

Next ==
    \E p \in Procs :
        \/ \E o \in Ids, d \in Ids, m \in Modes, a \in BOOLEAN : RouteRequest(p, o, d, m, a)
        \/ ReadNodes(p)
        \/ ReadEdges(p)
        \/ OriginMissing(p)
        \/ DestinationMissing(p)
        \/ StartSearch(p)
        \/ QueueEmpty(p)
        \/ PopDestination(p)
        \/ PopStale(p)
        \/ PopRelax(p)
        \/ Reconstruct(p)
        \/ Respond(p)

Spec == Init /\ [][Next]_vars

\* ------------------------------------------------------------------------
\* _update_danger_scores (app/services/gemini.py): matching
\* ------------------------------------------------------------------------

\* A street name or a reported street as its characters.
Chars(text) ==
    CASE text = "Pine St"     -> <<"P", "i", "n", "e", " ", "S", "t">>
      [] text = "State St"    -> <<"S", "t", "a", "t", "e", " ", "S", "t">>
      [] text = "Rolla St"    -> <<"R", "o", "l", "l", "a", " ", "S", "t">>
      [] text = "10th St"     -> <<"1", "0", "t", "h", " ", "S", "t">>
      [] text = "12th St"     -> <<"1", "2", "t", "h", " ", "S", "t">>
      [] text = "Main St"     -> <<"M", "a", "i", "n", " ", "S", "t">>
      [] text = "Main Street" -> <<"M", "a", "i", "n", " ", "S", "t", "r", "e", "e", "t">>
      [] text = "5th Avenue"  -> <<"5", "t", "h", " ", "A", "v", "e", "n", "u", "e">>
      [] text = "5th Ave"     -> <<"5", "t", "h", " ", "A", "v", "e">>
      [] text = "main st"     -> <<"m", "a", "i", "n", " ", "s", "t">>
      [] text = "St."         -> <<"S", "t", ".">>
      [] text = "Oak"         -> <<"O", "a", "k">>
      [] text = "Elm ("       -> <<"E", "l", "m", " ", "(">>

\* "$options": "i"
Lower(c) ==
    CASE c = "A" -> "a" [] c = "E" -> "e" [] c = "M" -> "m" [] c = "O" -> "o"
      [] c = "P" -> "p" [] c = "R" -> "r" [] c = "S" -> "s" [] OTHER -> c

\* The reported street is taken as a regular expression.  Of the syntax the
\* patterns of the model use ordinary characters, the wildcard "." and a
\* group that is opened and never closed, which the store refuses to compile.
RegexCompiles(pattern) ==
    \A k \in 1..Len(pattern) : pattern[k] # "("

\* One pattern character against one character of the name.
CharMatches(pc, c) == pc = "." \/ Lower(pc) = Lower(c)

\* CharMatches without the wildcard: the characters are compared as they are.
CharEquals(pc, c) == Lower(pc) = Lower(c)

\* An unanchored search of the pattern in the name.
RegexSearch(pattern, name) ==
    \E off \in 0..(Len(name) - Len(pattern)) :
        \A k \in 1..Len(pattern) : CharMatches(pattern[k], name[off + k])

\* s_col.find({"name": {"$regex": street_name, "$options": "i"}}): the
\* positions of the matching documents, in the order of the collection.
RECURSIVE FindByName(_, _, _)
FindByName(docs, pattern, i) ==
    IF i > Len(docs) THEN <<>>
    ELSE IF RegexSearch(Chars(pattern), Chars(docs[i].name))
         THEN <<i>> \o FindByName(docs, pattern, i + 1)
         ELSE FindByName(docs, pattern, i + 1)

\* ------------------------------------------------------------------------
\* _update_danger_scores: the blend
\* ------------------------------------------------------------------------

\* min(100.0, ...)
MaxScore == 10000000

Min(x, y) == IF x <= y THEN x ELSE y

\* round(x, 2) of x = num / 5 (in units of 0.00001): to a multiple of 0.01,
\* a tie going to the even neighbour.
Round2Fifths(num) ==
    LET q == num \div 5000
        r == num % 5000
    IN  IF r < 2500 THEN 1000 * q
        ELSE IF r > 2500 THEN 1000 * (q + 1)
        ELSE IF q % 2 = 0 THEN 1000 * q ELSE 1000 * (q + 1)

\* The blend with the severity added to the whole old score.
NewScoreAdded(old_score, severity) ==
    Min(MaxScore, Round2Fifths(5 * old_score + 2 * severity * 100000))

\* NewScore without the old score: the report replaces the score.
NewScoreReplaced(old_score, severity) ==
    Min(MaxScore, Round2Fifths(0 * old_score + 5 * severity * 100000))

\* new_score = min(100.0, round(0.6 * old_score + 0.4 * severity, 2))
NewScore(old_score, severity) ==
    Min(MaxScore, Round2Fifths(3 * old_score + 2 * severity * 100000))

\* old_score = edge.get("danger_score", 0.0)
OldScore(edge) == Get(edge, "danger_score", 0)

\* update_one({"_id": ...}, {"$set": {"danger_score": ..., "updated_at": ...}})
SetScore(edge, new_score, now) ==
    [k \in DOMAIN edge \cup {"danger_score", "updated_at"} |->
        IF k = "danger_score" THEN new_score
        ELSE IF k = "updated_at" THEN now
        ELSE edge[k]]

\* ------------------------------------------------------------------------
\* _update_danger_scores: state and steps
\* ------------------------------------------------------------------------

\* severity = max(1, min(100, int(parsed.get("severity", 50))))
MinSeverity == 1
MaxSeverity == 100
Severities == MinSeverity..MaxSeverity

NoCount == [kind |-> "none", error |-> "", updated |-> 0]

IdleBlend ==
    [pc |-> "idle", street_name |-> None, severity |-> 0,
     cursor |-> <<>>, updated |-> 0, old_score |-> 0, new_score |-> 0,
     runs |-> 0, out |-> NoCount]

\* ingest_incident: await _update_danger_scores(parsed["street"], parsed["severity"])
UpdateDangerScores(b, street_name, severity) ==
    /\ bq[b].pc \in {"idle", "done"}
    /\ bq' = [bq EXCEPT ![b] = [IdleBlend EXCEPT !.pc = "find", !.street_name = street_name,
                                                  !.severity = severity,
                                                  !.runs = bq[b].runs + 1]]
    /\ UNCHANGED <<intersections, streets, rq, clock, held, ledger, sq>>

\* cursor = s_col.find(...); the first "async for" sends the query: the store
\* refuses a pattern that does not compile, else it answers with the matching
\* documents as they are now, each with its _id (its position).
BlendFind(b) ==
    /\ bq[b].pc = "find"
    /\ bq' = [bq EXCEPT ![b] =
                IF RegexCompiles(Chars(bq[b].street_name))
                THEN [@ EXCEPT !.pc = "loop",
                               !.cursor = LET found == FindByName(streets, bq[b].street_name, 1)
                                          IN  [k \in 1..Len(found) |->
                                                  [id |-> found[k], edge |-> streets[found[k]]]]]
                ELSE [@ EXCEPT !.pc = "done",
                               !.out = [kind |-> "raised", error |-> "OperationFailure",
                                        updated |-> 0]]]
    /\ UNCHANGED <<intersections, streets, rq, clock, held, ledger, sq>>

\* BlendUpdateOne with old_score read from the store at the time of the write.
BlendUpdateOneFresh(b) ==
    /\ bq[b].pc = "loop"
    /\ bq[b].updated < Len(bq[b].cursor)
    /\ LET doc       == bq[b].cursor[bq[b].updated + 1]
           old_score == OldScore(streets[doc.id])
           new_score == NewScore(old_score, bq[b].severity)
       IN  /\ clock' = clock + 1
           /\ streets' = [streets EXCEPT ![doc.id] = SetScore(@, new_score, clock')]
           /\ held' = [held EXCEPT ![doc.id] = @ \cup {streets'[doc.id]}]
           /\ bq' = [bq EXCEPT ![b] = [@ EXCEPT !.updated = @ + 1,
                                                !.old_score = old_score,
                                                !.new_score = new_score]]
    /\ UNCHANGED <<intersections, rq, ledger, sq>>

\* One iteration of the loop: old_score from the document the cursor yielded,
\* new_score, update_one on the document of that _id, updated += 1.
BlendUpdateOne(b) ==
    /\ bq[b].pc = "loop"
    /\ bq[b].updated < Len(bq[b].cursor)
    /\ LET doc       == bq[b].cursor[bq[b].updated + 1]
           old_score == OldScore(doc.edge)
           new_score == NewScore(old_score, bq[b].severity)
       IN  /\ clock' = clock + 1
           /\ streets' = [streets EXCEPT ![doc.id] = SetScore(@, new_score, clock')]
           /\ held' = [held EXCEPT ![doc.id] = @ \cup {streets'[doc.id]}]
           /\ bq' = [bq EXCEPT ![b] = [@ EXCEPT !.updated = @ + 1,
                                                !.old_score = old_score,
                                                !.new_score = new_score]]
    /\ UNCHANGED <<intersections, rq, ledger, sq>>

\* return updated
BlendReturn(b) ==
    /\ bq[b].pc = "loop"
    /\ bq[b].updated = Len(bq[b].cursor)
    /\ bq' = [bq EXCEPT ![b] = [@ EXCEPT !.pc = "done",
                                         !.out = [kind |-> "returned", error |-> "",
                                                  updated |-> bq[b].updated]]]
    /\ UNCHANGED <<intersections, streets, rq, clock, held, ledger, sq>>

\* ------------------------------------------------------------------------
\* Repeated reports of one severity on one street
\* ------------------------------------------------------------------------

\* Largest number of reports one incident slot takes in SpecScore.
MaxRepeats == 3

\* The street of the scenario, with a stored score.
FifthAvenue(danger) ==
    [name |-> "5th Avenue", start_intersection_id |-> "A", end_intersection_id |-> "B",
     distance_m |-> 28000000, danger_score |-> danger,
     bidirectional |-> TRUE, is_accessible |-> TRUE]

\* The same street without a danger_score field.
FifthAvenueUnscored ==
    [name |-> "5th Avenue", start_intersection_id |-> "A", end_intersection_id |-> "B",
     distance_m |-> 28000000, bidirectional |-> TRUE, is_accessible |-> TRUE]

\* Stored scores: 0, 0.01, 45.0, 99.99, 100.0; 20.009, 20.991, 62.996 and
\* 99.995 (more than two decimals); -1.0 and 250.0 (outside 0..100, which
\* nothing in the store forbids).
OldScores ==
    {0, 1000, 4500000, 9999000, 10000000, 2000900, 2099100, 6299600, 9999500,
     -100000, 25000000}

InitScore ==
    /\ intersections = Intersections({"A", "B"})
    /\ streets \in { <<FifthAvenue(d)>> : d \in OldScores } \cup { <<FifthAvenueUnscored>> }
    /\ rq = <<>>
    /\ bq = [b \in {"b1"} |-> IdleBlend]
    /\ clock = 0
    /\ ledger = <<>>
    /\ sq = <<>>
    /\ held = [i \in 1..Len(streets) |-> {streets[i]}]

\* One slot reports "5th Ave" with a severity of its choice, again and again.
NextScore ==
    \E b \in DOMAIN bq :
        \/ \E s \in Severities :
              /\ bq[b].runs < MaxRepeats
              /\ bq[b].runs = 0 \/ s = bq[b].severity
              /\ UpdateDangerScores(b, "5th Ave", s)
        \/ BlendFind(b)
        \/ BlendUpdateOne(b)
        \/ BlendReturn(b)

SpecScore == InitScore /\ [][NextScore]_vars

\* ------------------------------------------------------------------------
\* Concurrent incident reports
\* ------------------------------------------------------------------------

\* Largest number of street documents in a store of SpecBlend.
MaxHazardEdges == 2

PoolStreet(name) == CHOOSE e \in EdgePool : e.name = name

\* Streets whose names share fragments, with and without a score.
HazardPool ==
    { FifthAvenue(4500000), FifthAvenueUnscored,
      PoolStreet("Main St"), PoolStreet("Main Street"), PoolStreet("State St") }

\* What a report may name: a fragment of "5th Avenue"; a fragment, in lower
\* case, of both "Main St" and "Main Street"; an abbreviation with its full
\* stop; a street the store does not have; a name with a bracket left open.
Patterns == {"5th Ave", "main st", "St.", "Oak", "Elm ("}

\* The severities reported in SpecBlend.
ReportedSeverities == {1, 90}

InitBlend ==
    /\ intersections = Intersections({"A", "B", "C"})
    /\ streets \in SeqsUpTo(HazardPool, MaxHazardEdges)
    /\ rq = <<>>
    /\ bq = [b \in {"b1", "b2"} |-> IdleBlend]
    /\ clock = 0
    /\ ledger = <<>>
    /\ sq = <<>>
    /\ held = [i \in 1..Len(streets) |-> {streets[i]}]

\* Each of the two slots takes one report.
NextBlend ==
    \E b \in DOMAIN bq :
        \/ \E pattern \in Patterns, s \in ReportedSeverities :
              /\ bq[b].pc = "idle"
              /\ UpdateDangerScores(b, pattern, s)
        \/ BlendFind(b)
        \/ BlendUpdateOne(b)
        \/ BlendReturn(b)

SpecBlend == InitBlend /\ [][NextBlend]_vars

\* ------------------------------------------------------------------------
\* Route requests beside other requests
\* ------------------------------------------------------------------------

\* The steps of compute_route and of its endpoint after the request came in.
RouteStep(p) ==
    \/ ReadNodes(p)
    \/ ReadEdges(p)
    \/ OriginMissing(p)
    \/ DestinationMissing(p)
    \/ StartSearch(p)
    \/ QueueEmpty(p)
    \/ PopDestination(p)
    \/ PopStale(p)
    \/ PopRelax(p)
    \/ Reconstruct(p)
    \/ Respond(p)

\* The stores of SpecRace and SpecConc: the 4-node scenario with B-D
\* accessible or not; a store where a cheaper way to C is found after a
\* dearer one and where D is named by a street only; a store without D.
SharedStores ==
    { [nodes |-> Intersections({"A", "B", "C", "D"}), edges |-> ScenarioStreets(acc)] :
          acc \in BOOLEAN }
    \cup { [nodes |-> Intersections({"A", "B", "C"}),
            edges |-> << PoolStreet("Pine St"), PoolStreet("State St"),
                         PoolStreet("Rolla St"), PoolStreet("Main Street") >>],
           [nodes |-> Intersections({"A", "B", "C"}),
            edges |-> << PoolStreet("Main St"), PoolStreet("Pine St") >>] }

\* One route request beside one incident report.
InitRace ==
    /\ \E st \in SharedStores : intersections = st.nodes /\ streets = st.edges
    /\ rq = [p \in {"r1"} |-> IdleRequest]
    /\ bq = [b \in {"b1"} |-> IdleBlend]
    /\ clock = 0
    /\ ledger = <<>>
    /\ sq = <<>>
    /\ held = [i \in 1..Len(streets) |-> {streets[i]}]

NextRace ==
    \/ \E p \in DOMAIN rq :
          \/ \E o \in {"A", "D"}, d \in Ids, m \in Modes, a \in BOOLEAN :
                RouteRequest(p, o, d, m, a)
          \/ RouteStep(p)
    \/ \E b \in DOMAIN bq :
          \/ \E pattern \in {"St.", "main st"}, s \in ReportedSeverities :
                /\ bq[b].pc = "idle"
                /\ UpdateDangerScores(b, pattern, s)
          \/ BlendFind(b)
          \/ BlendUpdateOne(b)
          \/ BlendReturn(b)

SpecRace == InitRace /\ [][NextRace]_vars

\* Two route requests beside each other.
InitConc ==
    /\ \E st \in SharedStores : intersections = st.nodes /\ streets = st.edges
    /\ rq = [p \in {"r1", "r2"} |-> IdleRequest]
    /\ bq = <<>>
    /\ clock = 0
    /\ ledger = <<>>
    /\ sq = <<>>
    /\ held = [i \in 1..Len(streets) |-> {streets[i]}]

NextConc ==
    \E p \in DOMAIN rq :
        \/ \E o \in {"A", "D"}, d \in {"C", "D"}, m \in Modes, a \in BOOLEAN :
              RouteRequest(p, o, d, m, a)
        \/ RouteStep(p)

SpecConc == InitConc /\ [][NextConc]_vars

\* ------------------------------------------------------------------------
\* Reference notions the properties are stated with
\* ------------------------------------------------------------------------

SetMin(S) == CHOOSE x \in S : \A y \in S : x <= y

\* The directed arcs <<u, v, weight>> of an adjacency map.
Arcs(adj) ==
    UNION { { <<u, adj[u][k][1], adj[u][k][2]>> : k \in 1..Len(adj[u]) } : u \in DOMAIN adj }

Vertices(adj) == DOMAIN adj \cup { a[2] : a \in Arcs(adj) }

\* One round of extending every known walk by one arc: d maps the ids reached so
\* far to the least cost of a walk found to them.
Extend(d, arcs) ==
    LET from == { a \in arcs : a[1] \in DOMAIN d }
        next == DOMAIN d \cup { a[2] : a \in from }
    IN  [v \in next |->
            SetMin((IF v \in DOMAIN d THEN {d[v]} ELSE {})
                   \cup { d[a[1]] + a[3] : a \in { x \in from : x[2] = v } })]

RECURSIVE ExtendTimes(_, _, _)
ExtendTimes(d, arcs, n) ==
    IF n = 0 THEN d ELSE ExtendTimes(Extend(d, arcs), arcs, n - 1)

\* For every id reachable from origin by directed arcs of adj, the minimum over
\* all arc paths from origin of the sum of the arc weights (a path that visits
\* an id twice is never cheaper: the weights are positive).
MinCosts(adj, origin) ==
    ExtendTimes((origin :> 0), Arcs(adj), Cardinality(Vertices(adj)))

Finished(r) == r.pc \in {"done", "responded"}

SearchEnded(r) == r.pc = "rebuild" \/ (Finished(r) /\ r.dist # <<>>)

IsNodeNotFound(out) ==
    /\ out.kind = "raised" /\ out.error = "ValueError"
    /\ out.msg[1] \in {"Origin node", "Destination node"}

IsNoPathExists(out) ==
    /\ out.kind = "raised" /\ out.error = "ValueError"
    /\ out.msg[1] = "No path between"

\* ------------------------------------------------------------------------
\* C1
\* ------------------------------------------------------------------------

\* The search itself: when the loop has ended, the destination has a
\* predecessor entry exactly if it is reachable in the snapshot, and then its
\* best-known cost is the minimum cost of an arc path from the origin.
SearchOptimal ==
    \A p \in Procs :
        LET r == rq[p] IN
        SearchEnded(r) =>
            LET mc == MinCosts(r.adj, r.origin) IN
            /\ r.destination \in DOMAIN r.prev <=> r.destination \in DOMAIN mc
            /\ r.destination \in DOMAIN r.prev => r.dist[r.destination] = mc[r.destination]

\* C1: for origin and destination both in the snapshot with the destination
\* reachable, compute_route returns a result whose total_cost is, before the
\* rounding, the minimum over all arc paths of the sum of the clamped weights.
C1_ReturnsMinimumCost ==
    \A p \in Procs :
        LET r == rq[p] IN
        (/\ Finished(r)
         /\ {r.origin, r.destination} \subseteq DOMAIN r.adj \cap DOMAIN r.coords
         /\ r.destination \in DOMAIN MinCosts(r.adj, r.origin))
        => /\ r.out.kind = "returned"
           /\ r.dist[r.destination] = MinCosts(r.adj, r.origin)[r.destination]
           /\ r.out.total_cost = Round4(r.dist[r.destination])

\* ------------------------------------------------------------------------
\* C2
\* ------------------------------------------------------------------------

Returned(r) == Finished(r) /\ r.out.kind = "returned"

\* The snapshot of request r is complete (both reads are done).
Built(r) == r.pc \notin {"idle", "nodes", "streets"}

\* The weight of the arc u -> v that the search keeps: of parallel arcs the
\* cheapest, a dearer one never improving on it.
KeptWeight(adj, u, v) == SetMin({ a[3] : a \in { x \in Arcs(adj) : x[1] = u /\ x[2] = v } })

RECURSIVE PathWeight(_, _, _)
PathWeight(adj, path, k) ==
    IF k >= Len(path) THEN 0
    ELSE KeptWeight(adj, path[k], path[k + 1]) + PathWeight(adj, path, k + 1)

\* The path of a result leads from the origin to the destination along arcs of
\* the snapshot, and the coordinates are those of the path's ids, in order.
PathWellFormed(r) ==
    LET path == r.out.path IN
    /\ Len(path) >= 1
    /\ path[1] = r.origin
    /\ path[Len(path)] = r.destination
    /\ \A k \in 1..(Len(path) - 1) :
           \E a \in Arcs(r.adj) : a[1] = path[k] /\ a[2] = path[k + 1]
    /\ Len(r.out.coordinates) = Len(path)
    /\ \A k \in 1..Len(path) : r.out.coordinates[k] = intersections[path[k]]

\* C2 as stated: every result has a well-formed path, and its total_cost is
\* the sum of the weights of the arcs relaxed along the path.
C2_TotalCostIsArcSum ==
    \A p \in Procs :
        LET r == rq[p] IN
        Returned(r) =>
            /\ PathWellFormed(r)
            /\ r.out.total_cost = PathWeight(r.adj, r.out.path, 1)

\* C2 amended: every result has a path from the origin to the destination
\* whose consecutive ids are joined by arcs of the snapshot, with the matching
\* coordinates; the sum of the weights of the arcs relaxed along it is the
\* cost the search accumulated, and total_cost is that sum rounded to 4 decimals.
C2_TotalCostIsRoundedArcSum ==
    \A p \in Procs :
        LET r == rq[p] IN
        Returned(r) =>
            /\ PathWellFormed(r)
            /\ r.dist[r.destination] = PathWeight(r.adj, r.out.path, 1)
            /\ r.out.total_cost = Round4(PathWeight(r.adj, r.out.path, 1))

\* A result over two arcs whose cost has digits past the fourth decimal.
C2_Witness ==
    \E p \in Procs :
        /\ Returned(rq[p])
        /\ Len(rq[p].out.path) = 3
        /\ rq[p].dist[rq[p].destination] % 10 # 0

\* ------------------------------------------------------------------------
\* C3
\* ------------------------------------------------------------------------

\* The field of a street document that the mode selects.
ModeField(edge, mode) == IF mode = "safest" THEN edge.danger_score ELSE edge.distance_m

ScenarioStore(bdAccessible) ==
    /\ intersections = Intersections({"A", "B", "C", "D"})
    /\ streets = ScenarioStreets(bdAccessible)

ScenarioSafest(r) ==
    /\ r.out.kind = "returned"
    /\ r.out.path = <<"A", "C", "D">>
    /\ r.out.total_cost = 1800000

\* compute_route(A, D, safest, ada=false) on the 4-node scenario
C3_Scenario ==
    \A p \in Procs :
        LET r == rq[p] IN
        (/\ ScenarioStore(TRUE) /\ Finished(r)
         /\ r.origin = "A" /\ r.destination = "D"
         /\ r.mode = "safest" /\ ~r.ada_required)
        => ScenarioSafest(r)

\* C3 as stated: the weight of every arc is the danger_score of its street in
\* safest mode and its distance_m in shortest mode; the scenario returns [A, C, D]
\* with total cost 18.0.
C3_WeightIsModeField ==
    /\ \A p \in Procs :
           LET r == rq[p] IN
           Built(r) =>
               \A u \in DOMAIN r.adj : \A k \in 1..Len(r.adj[u]) :
                   r.adj[u][k][2] = ModeField(streets[r.adj[u][k][3]], r.mode)
    /\ C3_Scenario

\* C3 amended: the weight of every arc is the danger_score of its street in
\* safest mode and its distance_m in shortest mode, raised to the floor 0.01
\* when the field is below it; the scenario returns [A, C, D] with total cost 18.0.
C3_WeightIsClampedModeField ==
    /\ \A p \in Procs :
           LET r == rq[p] IN
           Built(r) =>
               \A u \in DOMAIN r.adj : \A k \in 1..Len(r.adj[u]) :
                   r.adj[u][k][2] = Max(ModeField(streets[r.adj[u][k][3]], r.mode), MinWeight)
    /\ C3_Scenario

\* The scenario request has returned [A, C, D] with cost 18.0.
C3_Witness ==
    \E p \in Procs :
        /\ ScenarioStore(TRUE) /\ Finished(rq[p])
        /\ rq[p].origin = "A" /\ rq[p].destination = "D"
        /\ rq[p].mode = "safest" /\ ~rq[p].ada_required
        /\ ScenarioSafest(rq[p])

\* ------------------------------------------------------------------------
\* C4
\* ------------------------------------------------------------------------

\* C4: a request whose origin has no intersection document fails with
\* NodeNotFound, also when a street names that id as an endpoint.
C4_UnknownOriginIsNodeNotFound ==
    \A p \in Procs :
        LET r == rq[p] IN
        (Finished(r) /\ r.origin \notin DOMAIN intersections) => IsNodeNotFound(r.out)

\* ------------------------------------------------------------------------
\* C5
\* ------------------------------------------------------------------------

InAdjacency(r) == r.origin \in DOMAIN r.adj /\ r.destination \in DOMAIN r.adj

\* C5: with origin and destination in the adjacency map, the request fails
\* with NoPathExists exactly if no arc path leads from the origin to the
\* destination in the snapshot; a path it returns starts at the origin and
\* ends at the destination; the NoPathExists message is none of the
\* NodeNotFound messages.
C5_NoPathIffUnreachable ==
    \A p \in Procs :
        LET r == rq[p] IN
        (Finished(r) /\ InAdjacency(r)) =>
            /\ IsNoPathExists(r.out) <=> r.destination \notin DOMAIN MinCosts(r.adj, r.origin)
            /\ r.out.kind = "returned" =>
                   /\ r.out.path[1] = r.origin
                   /\ r.out.path[Len(r.out.path)] = r.destination
                   /\ \A k \in 1..(Len(r.out.path) - 1) :
                          \E a \in Arcs(r.adj) :
                              a[1] = r.out.path[k] /\ a[2] = r.out.path[k + 1]
            /\ IsNoPathExists(r.out) =>
                   /\ ~IsNodeNotFound(r.out)
                   /\ \A n \in Ids : r.out.msg \notin {OriginNotFound(n).msg,
                                                       DestinationNotFound(n).msg}

\* A request between two intersections that no arc path joins has failed with
\* NoPathExists, streets being in the store.
C5_Witness ==
    \E p \in Procs :
        /\ Finished(rq[p]) /\ InAdjacency(rq[p])
        /\ streets # <<>>
        /\ rq[p].origin # rq[p].destination
        /\ IsNoPathExists(rq[p].out)

\* ------------------------------------------------------------------------
\* C6
\* ------------------------------------------------------------------------

Accessible(edge) == Get(edge, "is_accessible", TRUE)

ScenarioAda(r) ==
    /\ r.out.kind = "returned"
    /\ r.out.path = <<"A", "C", "D">>
    /\ r.out.total_cost = 1800000
    /\ r.out.hazards_bypassed = 1

\* C7: with ada_required, a street whose is_accessible flag is false has no arc
\* in the snapshot, in either direction, so consecutive ids of a returned path
\* are joined by an arc of an accessible street (flag true or missing); on the
\* scenario with B-D inaccessible, compute_route(A, D, safest, ada=true) returns
\* [A, C, D] with cost 18.0 and hazards_bypassed 1.
C7_AdaPathsUseAccessibleStreets ==
    \A p \in Procs :
        LET r == rq[p] IN
        /\ (Built(r) /\ r.ada_required) =>
               \A u \in DOMAIN r.adj : \A k \in 1..Len(r.adj[u]) :
                   Accessible(streets[r.adj[u][k][3]])
        /\ (Returned(r) /\ r.ada_required) =>
               \A k \in 1..(Len(r.out.path) - 1) :
                   \E i \in 1..Len(streets) :
                       /\ Accessible(streets[i])
                       /\ \E j \in 1..Len(r.adj[r.out.path[k]]) :
                              /\ r.adj[r.out.path[k]][j][1] = r.out.path[k + 1]
                              /\ r.adj[r.out.path[k]][j][3] = i
        /\ (/\ ScenarioStore(FALSE) /\ Finished(r)
            /\ r.origin = "A" /\ r.destination = "D"
            /\ r.mode = "safest" /\ r.ada_required)
           => ScenarioAda(r)

\* The scenario request with ada_required has returned, B-D being inaccessible.
C7_Witness ==
    \E p \in Procs :
        /\ ScenarioStore(FALSE) /\ Finished(rq[p])
        /\ rq[p].origin = "A" /\ rq[p].destination = "D"
        /\ rq[p].mode = "safest" /\ rq[p].ada_required
        /\ ScenarioAda(rq[p])

\* ------------------------------------------------------------------------
\* C8
\* ------------------------------------------------------------------------

\* The streets whose is_accessible flag is false.
Inaccessible(docs) == { i \in 1..Len(docs) : ~Get(docs[i], "is_accessible", TRUE) }

\* C8: the hazards_bypassed of a result is the number of streets whose
\* is_accessible flag is false when ada_required is true and 0 when it is
\* false; it is a function of the streets and the flag alone, and never
\* exceeds the number of inaccessible streets.
C8_HazardsBypassedCount ==
    \A p \in Procs :
        LET r == rq[p] IN
        Returned(r) =>
            /\ r.out.hazards_bypassed =
                   IF r.ada_required THEN Cardinality(Inaccessible(streets)) ELSE 0
            /\ r.out.hazards_bypassed <= Cardinality(Inaccessible(streets))

\* A result with ada_required over a store holding two inaccessible streets
\* and a street without the flag.
C8_Witness ==
    \E p \in Procs :
        /\ Returned(rq[p]) /\ rq[p].ada_required
        /\ rq[p].out.hazards_bypassed = 2
        /\ \E i \in 1..Len(streets) : "is_accessible" \notin DOMAIN streets[i]

\* ------------------------------------------------------------------------
\* C9
\* ------------------------------------------------------------------------

\* compute_route on the store as it is, with the arguments of r but ada_required false
WithoutAda(r) ==
    compute_route(intersections, streets, r.origin, r.destination, r.mode, FALSE)

\* C9: where compute_route succeeds without ada_required with cost c, it
\* either succeeds with ada_required with a cost of at least c or fails because
\* the destination is unreachable.
C9_AdaNeverCheaper ==
    \A p \in Procs :
        LET r == rq[p] IN
        (Finished(r) /\ r.ada_required /\ WithoutAda(r).kind = "returned") =>
            \/ r.out.kind = "returned" /\ r.out.total_cost >= WithoutAda(r).total_cost
            \/ IsNoPathExists(r.out)

\* The part of C9 that the code keeps: a success with ada_required is never
\* cheaper than the success without it.
AdaSuccessNeverCheaper ==
    \A p \in Procs :
        LET r == rq[p] IN
        (Returned(r) /\ r.ada_required /\ WithoutAda(r).kind = "returned") =>
            r.out.total_cost >= WithoutAda(r).total_cost

\* ------------------------------------------------------------------------
\* C10
\* ------------------------------------------------------------------------

\* C10: in either mode every arc weight of a built snapshot is greater than 0,
\* and at least the floor 0.01.
C10_WeightsPositive ==
    \A p \in Procs :
        LET r == rq[p] IN
        Built(r) =>
            \A u \in DOMAIN r.adj : \A k \in 1..Len(r.adj[u]) :
                r.adj[u][k][2] > 0 /\ r.adj[u][k][2] >= MinWeight

\* A snapshot holds an arc of a street whose selected field is 0 or negative.
C10_Witness ==
    \E p \in Procs :
        LET r == rq[p] IN
        /\ Built(r)
        /\ \E u \in DOMAIN r.adj : \E k \in 1..Len(r.adj[u]) :
               /\ ModeField(streets[r.adj[u][k][3]], r.mode) <= 0
               /\ r.adj[u][k][2] = MinWeight

\* ------------------------------------------------------------------------
\* The stepwise request and compute_route agree
\* ------------------------------------------------------------------------

StepwiseIsComputeRoute ==
    \A p \in Procs :
        LET r == rq[p] IN
        Finished(r) =>
            r.out = compute_route(intersections, streets, r.origin, r.destination,
                                  r.mode, r.ada_required)

\* ------------------------------------------------------------------------
\* C11: arcs of a snapshot
\* ------------------------------------------------------------------------

\* The places <<u, k>> of the arcs that street i put into the adjacency map.
ArcPlaces(adj, i) ==
    { pl \in UNION { { <<u, k>> : k \in 1..Len(adj[u]) } : u \in DOMAIN adj } :
          adj[pl[1]][pl[2]][3] = i }

\* Those arcs as <<from, to, weight>>.
ArcsOfStreet(adj, i) ==
    { <<pl[1], adj[pl[1]][pl[2]][1], adj[pl[1]][pl[2]][2]>> : pl \in ArcPlaces(adj, i) }

Bidirectional(edge) == Get(edge, "bidirectional", TRUE)

\* What street i of the read must have contributed to a snapshot.
ArcsAsRequired(r, docs, i) ==
    LET edge == docs[i]
        a    == edge.start_intersection_id
        b    == edge.end_intersection_id
        w    == Weight(edge, r.mode)
    IN  IF Excluded(edge, r.ada_required)
        THEN ArcPlaces(r.adj, i) = {}
        ELSE IF Bidirectional(edge)
        THEN /\ Cardinality(ArcPlaces(r.adj, i)) = 2
             /\ ArcsOfStreet(r.adj, i) = { <<a, b, w>>, <<b, a, w>> }
        ELSE /\ Cardinality(ArcPlaces(r.adj, i)) = 1
             /\ ArcsOfStreet(r.adj, i) = { <<a, b, w>> }

\* C11: in every snapshot, an included bidirectional street (flag true or
\* missing) has exactly the two arcs a->b and b->a, of one weight; an included
\* one-way street has exactly the arc a->b; an excluded street has none; and
\* every arc comes from a street of the read.
C11_ArcsPerStreet ==
    \A p \in Procs :
        LET r == rq[p]
        IN  Built(r) =>
                /\ \A i \in 1..Len(streets) : ArcsAsRequired(r, streets, i)
                /\ \A u \in DOMAIN r.adj : \A k \in 1..Len(r.adj[u]) :
                       r.adj[u][k][3] \in 1..Len(streets)

\* A snapshot built from a two-way street without the flag, a one-way street
\* and a street that the accessibility filter excluded.
C11_Witness ==
    \E p \in Procs :
        LET r == rq[p]
        IN  /\ Built(r)
            /\ r.ada_required
            /\ \E i, j, k \in 1..Len(streets) :
                   /\ "bidirectional" \notin DOMAIN streets[i]
                   /\ ~Excluded(streets[i], TRUE)
                   /\ ~Bidirectional(streets[j])
                   /\ Excluded(streets[k], TRUE)

\* ------------------------------------------------------------------------
\* C12: the written score
\* ------------------------------------------------------------------------

\* clamp(x, 0, 100)
Clamp(x) == Max(0, Min(MaxScore, x))

\* The slot has written at least one score in its current run.
HasWritten(q) == q.pc \in {"loop", "done"} /\ q.updated > 0

\* The streets a blend has written.
Updated(docs) == { i \in 1..Len(docs) : "updated_at" \in DOMAIN docs[i] }

\* C12: for any stored score (a missing one counting as 0) and any severity in
\* 1..100 the written score is clamp(0.6 * old + 0.4 * s, 0, 100) rounded to 2
\* decimals, so the score of every updated street lies in 0..100; and for
\* old = 45.0, s = 90 it is 63.0.
C12_WrittenScoreIsClamped ==
    /\ \A b \in DOMAIN bq :
           LET q == bq[b]
           IN  HasWritten(q) =>
                   /\ q.new_score =
                          Clamp(Round2Fifths(3 * q.old_score + 2 * q.severity * 100000))
                   /\ (q.old_score = 4500000 /\ q.severity = 90) => q.new_score = 6300000
    /\ \A i \in Updated(streets) :
           streets[i].danger_score >= 0 /\ streets[i].danger_score <= MaxScore

\* What holds instead: the score is capped at 100 and not raised to 0; it lies
\* in 0..100 whenever the score read was not negative; the scenario holds.
WrittenScoreIsCapped ==
    \A b \in DOMAIN bq :
        LET q == bq[b]
        IN  HasWritten(q) =>
                /\ q.new_score <= MaxScore
                /\ q.old_score >= 0 => q.new_score >= 0
                /\ q.old_score < 0 /\ q.new_score < 0 =>
                       q.new_score = Round2Fifths(3 * q.old_score + 2 * q.severity * 100000)
                /\ (q.old_score = 4500000 /\ q.severity = 90) => q.new_score = 6300000

\* The scenario has happened: "5th Ave", 90 on "5th Avenue" with 45.0 has
\* written 63.0 and returned 1.
ScenarioBlended ==
    \E b \in DOMAIN bq :
        /\ bq[b].pc = "done" /\ bq[b].out.kind = "returned" /\ bq[b].out.updated = 1
        /\ bq[b].old_score = 4500000 /\ bq[b].severity = 90 /\ bq[b].runs = 1
        /\ streets[1].danger_score = 6300000

\* ------------------------------------------------------------------------
\* C15: repeated reports of one severity
\* ------------------------------------------------------------------------

Abs(x) == IF x >= 0 THEN x ELSE -x

\* The severity on the scale of the scores.
Target(q) == q.severity * 100000

\* new_score is no farther from the severity than old_score, not on the other
\* side of it, and within 0..100.
MovesToward(q) ==
    /\ Abs(q.new_score - Target(q)) <= Abs(q.old_score - Target(q))
    /\ q.old_score >= Target(q) => q.new_score >= Target(q)
    /\ q.old_score <= Target(q) => q.new_score <= Target(q)
    /\ q.new_score >= 0 /\ q.new_score <= MaxScore

InRange(score) == score >= 0 /\ score <= MaxScore

\* C15 as stated: from any score in 0..100, every report of the same
\* severity moves the score no farther from the severity, never across it,
\* and keeps it in 0..100.
C15_RepeatedBlendMovesToward ==
    \A b \in DOMAIN bq :
        LET q == bq[b]
        IN  HasWritten(q) /\ InRange(q.old_score) => MovesToward(q)

\* C15, amended: the same for a score in 0..100 of at most two decimals,
\* which every score written by a blend is.
C15_RepeatedBlendMovesTowardFromTwoDecimals ==
    \A b \in DOMAIN bq :
        LET q == bq[b]
        IN  /\ HasWritten(q) /\ InRange(q.old_score) /\ q.old_score % 1000 = 0
                => MovesToward(q)
            /\ HasWritten(q) => q.new_score % 1000 = 0

\* The third report of one severity has moved a score strictly closer to it.
C15_Witness ==
    \E b \in DOMAIN bq :
        LET q == bq[b]
        IN  /\ HasWritten(q) /\ q.runs = MaxRepeats
            /\ InRange(q.old_score) /\ q.old_score % 1000 = 0
            /\ q.old_score > Target(q)
            /\ Abs(q.new_score - Target(q)) < Abs(q.old_score - Target(q))

\* ------------------------------------------------------------------------
\* C13, C14: which streets a report updates
\* ------------------------------------------------------------------------

\* The pattern is contained in the name, letter case aside.
Contains(pattern, name) ==
    \E off \in 0..(Len(name) - Len(pattern)) :
        \A k \in 1..Len(pattern) : CharEquals(pattern[k], name[off + k])

\* The streets whose name contains the reported street.
Containing(docs, street_name) ==
    { i \in 1..Len(docs) : Contains(Chars(street_name), Chars(docs[i].name)) }

\* The streets a slot has updated in its run.
UpdatedBy(q) == { q.cursor[k].id : k \in 1..q.updated }

\* The pattern has no character that a regular expression reads specially.
Plain(street_name) ==
    \A k \in 1..Len(Chars(street_name)) : Chars(street_name)[k] \notin {".", "("}

\* The fields of a street that routing reads.
RoutingFields(edge) ==
    [k \in DOMAIN edge \ {"danger_score", "updated_at", "name"} |-> edge[k]]

\* No record a street has held differs from another in a field routing reads
\* or in its name.
RoutingFieldsKept ==
    \A i \in 1..Len(streets) : \A doc \in held[i] :
        RoutingFields(doc) = RoutingFields(streets[i]) /\ doc.name = streets[i].name

BlendEnded(q) == q.pc = "done"

\* C13: a report updates the score of every street whose name contains the
\* pattern as a case-insensitive substring and of no other, returns the
\* number of streets it updated, and changes no field that routing reads.
C13_UpdatesSubstringMatches ==
    /\ \A b \in DOMAIN bq :
           LET q == bq[b]
           IN  BlendEnded(q) =>
                   /\ q.out.kind = "returned"
                   /\ UpdatedBy(q) = Containing(streets, q.street_name)
                   /\ q.out.updated = Cardinality(UpdatedBy(q))
    /\ RoutingFieldsKept

\* What holds instead: the claim for the patterns without special characters,
\* and the frame for all.
PlainPatternUpdatesSubstringMatches ==
    /\ \A b \in DOMAIN bq :
           LET q == bq[b]
           IN  BlendEnded(q) /\ Plain(q.street_name) =>
                   /\ q.out.kind = "returned"
                   /\ UpdatedBy(q) = Containing(streets, q.street_name)
                   /\ q.out.updated = Cardinality(UpdatedBy(q))
    /\ RoutingFieldsKept

\* "main st" has updated both "Main St" and "Main Street".
BothMainStreetsUpdated ==
    \E b \in DOMAIN bq :
        /\ BlendEnded(bq[b]) /\ bq[b].street_name = "main st" /\ bq[b].out.updated = 2
        /\ \E i, j \in UpdatedBy(bq[b]) :
               streets[i].name = "Main St" /\ streets[j].name = "Main Street"

\* The store is as it was created.
Untouched == clock = 0 /\ \A i \in 1..Len(streets) : held[i] = {streets[i]}

\* C14: a report whose pattern matches no street name ends successfully with
\* a count of 0 and leaves every street record as it was; no error is raised
\* for an unrecognized street name.
C14_NoMatchIsNoOp ==
    /\ \A b \in DOMAIN bq :
           LET q == bq[b]
           IN  BlendEnded(q) /\ Containing(streets, q.street_name) = {} =>
                   q.out.kind = "returned" /\ q.out.updated = 0 /\ UpdatedBy(q) = {}
    /\ (\A b \in DOMAIN bq :
            bq[b].pc = "idle" \/ Containing(streets, bq[b].street_name) = {}) => Untouched

\* What holds instead: the claim for the patterns that the store compiles and
\* that match no name as a regular expression.
CompiledNoMatchIsNoOp ==
    /\ \A b \in DOMAIN bq :
           LET q == bq[b]
           IN  BlendEnded(q) /\ RegexCompiles(Chars(q.street_name))
                   /\ FindByName(streets, q.street_name, 1) = <<>> =>
                   q.out.kind = "returned" /\ q.out.updated = 0 /\ UpdatedBy(q) = {}
    /\ (\A b \in DOMAIN bq : bq[b].pc = "idle" \/ bq[b].cursor = <<>>) => Untouched

\* "Oak" has returned 0 from a store that has streets.
OakReturnedZero ==
    \E b \in DOMAIN bq :
        /\ BlendEnded(bq[b]) /\ bq[b].street_name = "Oak" /\ bq[b].out.kind = "returned"
        /\ bq[b].out.updated = 0 /\ Len(streets) = MaxHazardEdges /\ Untouched

\* ------------------------------------------------------------------------
\* C16: two reports on one street
\* ------------------------------------------------------------------------

\* The document the slot's cursor yielded for street i.
ReadBy(q, i) == (CHOOSE k \in 1..q.updated : q.cursor[k].id = i)

\* The score the slot wrote to street i: blended from the document it read.
WrittenBy(q, i) == NewScore(OldScore(q.cursor[ReadBy(q, i)].edge), q.severity)

\* C16: blends are unsynchronized read-modify-writes.  The score a street
\* holds after blends is the one its last writer computed from the document
\* that writer had read, whatever was written in between: last write wins.
C16_LastWriteWins ==
    \A i \in Updated(streets) :
        \E b \in DOMAIN bq :
            /\ i \in UpdatedBy(bq[b])
            /\ streets[i].danger_score = WrittenBy(bq[b], i)

\* The lost update: two reports of different severities have read the same
\* record of a street and both have ended; the street holds what one of them
\* computed from that record, which is the outcome of neither serial order.
C16_Witness ==
    \E i \in 1..Len(streets) : \E w \in DOMAIN bq : \E l \in DOMAIN bq \ {w} :
        LET qw == bq[w]
            ql == bq[l]
        IN  /\ BlendEnded(qw) /\ BlendEnded(ql)
            /\ i \in UpdatedBy(qw) /\ i \in UpdatedBy(ql)
            /\ qw.cursor[ReadBy(qw, i)].edge = ql.cursor[ReadBy(ql, i)].edge
            /\ qw.severity # ql.severity
            /\ streets[i].danger_score = WrittenBy(qw, i)
            /\ LET old == OldScore(qw.cursor[ReadBy(qw, i)].edge)
               IN  /\ streets[i].danger_score
                          # NewScore(NewScore(old, ql.severity), qw.severity)
                   /\ streets[i].danger_score
                          # NewScore(NewScore(old, qw.severity), ql.severity)

\* ------------------------------------------------------------------------
\* C17: a snapshot built while a report is blended
\* ------------------------------------------------------------------------

\* The arcs of street i in the snapshot are those of one record the store has
\* held for the street.
FromOneRecord(r, i) ==
    \E doc \in held[i] : ArcsAsRequired(r, (i :> doc), i)

\* C17: whatever a blend writes while a snapshot is built, the arcs of every
\* street in the snapshot come from one whole record that the store held for
\* it, before or after an update: their weight is the floor-clamped weight
\* field of that record, and the two arcs of a two-way street weigh the same.
C17_SnapshotReadsWholeRecords ==
    \A p \in DOMAIN rq :
        LET r == rq[p]
        IN  Built(r) =>
                \A i \in 1..Len(streets) :
                    /\ FromOneRecord(r, i)
                    /\ Cardinality({ a[3] : a \in ArcsOfStreet(r.adj, i) }) <= 1

\* A snapshot taken between the two writes of one report: the report updates
\* streets i and j, the snapshot weighs i by the new score and j by the old.
C17_Witness ==
    \E p \in DOMAIN rq : \E b \in DOMAIN bq :
        LET r == rq[p]
            q == bq[b]
        IN  /\ Built(r) /\ r.mode = "safest" /\ BlendEnded(q)
            /\ \E i, j \in UpdatedBy(q) :
                   /\ i # j
                   /\ \E a \in ArcsOfStreet(r.adj, i) :
                          /\ a[3] = Weight(streets[i], "safest")
                          /\ a[3] # Weight(q.cursor[ReadBy(q, i)].edge, "safest")
                   /\ \E a \in ArcsOfStreet(r.adj, j) :
                          /\ a[3] = Weight(q.cursor[ReadBy(q, j)].edge, "safest")
                          /\ a[3] # Weight(streets[j], "safest")

\* ------------------------------------------------------------------------
\* C18: requests beside each other
\* ------------------------------------------------------------------------

\* The outcome of the request when the search runs on from the maps s, alone.
OutcomeFrom(r, s) ==
    LET t == SearchLoop(s, r.adj, r.destination)
    IN  RouteResult([r EXCEPT !.dist = t.dist, !.prev = t.prev])

\* The outcome of the request run alone on the snapshot it has built.
SolveAlone(r) ==
    IF r.origin \notin DOMAIN r.adj THEN OriginNotFound(r.origin)
    ELSE IF r.destination \notin DOMAIN r.adj THEN DestinationNotFound(r.destination)
    ELSE OutcomeFrom(r, SearchInit(r.origin))

\* C18: dist, prev, pq, adj and coords belong to one request.  However the
\* steps of the requests interleave, a request that is searching is where a
\* run alone on its snapshot would be (running on alone from its maps gives
\* the outcome of the run alone), and the outcome of a request that has ended
\* is that of the run alone on its snapshot.
C18_RequestsDoNotInterfere ==
    \A p \in DOMAIN rq :
        LET r == rq[p]
        IN  /\ r.pc = "search" =>
                   OutcomeFrom(r, [dist |-> r.dist, prev |-> r.prev, pq |-> r.pq])
                       = SolveAlone(r)
            /\ r.pc = "rebuild" => RouteResult(r) = SolveAlone(r)
            /\ Finished(r) => r.out = SolveAlone(r)

\* Two different requests are in the middle of their searches at once, each
\* having relaxed arcs, and a run alone would give them different paths.
C18_Witness ==
    \E p \in DOMAIN rq : \E o \in DOMAIN rq \ {p} :
        /\ rq[p].pc = "search" /\ rq[o].pc = "search"
        /\ Cardinality(DOMAIN rq[p].dist) > 1 /\ Cardinality(DOMAIN rq[o].dist) > 1
        /\ rq[p].pq # <<>> /\ rq[o].pq # <<>>
        /\ rq[p].dist # rq[o].dist
        /\ SolveAlone(rq[p]).kind = "returned" /\ SolveAlone(rq[o]).kind = "returned"
        /\ SolveAlone(rq[p]).path # SolveAlone(rq[o]).path

\* ------------------------------------------------------------------------
\* C19: routing does not write
\* ------------------------------------------------------------------------

\* C19: no step of a route request, from the request to the answer, whether
\* it returns or fails, changes a record of the intersections or the streets.
C19_RouteIsReadOnly ==
    [][rq' # rq => intersections' = intersections /\ streets' = streets]_vars

\* A request has been answered with a route of several streets' nodes, and
\* the store, which has streets, is as it was created.
C19_Witness ==
    \E p \in DOMAIN rq :
        /\ rq[p].pc = "responded"
        /\ rq[p].out.kind = "returned" /\ Len(rq[p].out.path) > 1
        /\ Len(streets) > 0 /\ Untouched

\* ------------------------------------------------------------------------
\* C20: the store without data
\* ------------------------------------------------------------------------

EmptyStore == intersections = <<>> /\ streets = <<>>

\* C20: from a store without intersections and streets the builder returns an
\* empty adjacency map, an empty coordinate map and 0 exclusions, without an
\* error, and compute_route fails with NodeNotFound whatever origin and
\* destination are, the same id twice included.
C20_EmptyStoreIsNodeNotFound ==
    EmptyStore =>
        \A p \in Procs :
            LET r == rq[p]
            IN  /\ r.pc \notin {"search", "rebuild"}
                /\ r.out.error # "KeyError"
                /\ Built(r) => r.adj = <<>> /\ r.coords = <<>> /\ r.hazards_bypassed = 0
                /\ Finished(r) => IsNodeNotFound(r.out) /\ r.out = OriginNotFound(r.origin)
                /\ r.pc = "responded" => r.http = 404

\* A request with one id as origin and destination and with ada_required has
\* been answered by the store without data.
C20_Witness ==
    /\ EmptyStore
    /\ \E p \in Procs :
           /\ rq[p].pc = "responded" /\ rq[p].origin = rq[p].destination
           /\ rq[p].ada_required /\ IsNodeNotFound(rq[p].out)

\* ------------------------------------------------------------------------
\* C21: ties
\* ------------------------------------------------------------------------

\* The nodes whose best cost or predecessor differs between the maps.
Changed(dist, prev, dist2, prev2) ==
    { v \in DOMAIN dist2 :
          v \notin DOMAIN dist \/ dist2[v] # dist[v] \/ prev2[v] # prev[v] }

\* In a step of the search no node gets a cost that is not strictly below the
\* one it had, a node that keeps its cost keeps its predecessor, and an entry
\* is pushed only for a node that got a new cost.
TieKeepsFirst ==
    \A p \in DOMAIN rq :
        rq[p].pc = "search" /\ rq'[p].pc = "search" /\ rq'[p] # rq[p] =>
            LET r  == rq[p]
                r2 == rq'[p]
                ch == Changed(r.dist, r.prev, r2.dist, r2.prev)
            IN  /\ \A v \in DOMAIN r.dist :
                       /\ v \in DOMAIN r2.dist /\ r2.dist[v] <= r.dist[v]
                       /\ r2.dist[v] = r.dist[v] => r2.prev[v] = r.prev[v]
                /\ Len(r2.pq) >= Len(r.pq) - 1 + Cardinality(ch)
                /\ ch = {} => Len(r2.pq) = Len(r.pq) - 1

\* compute_route(A, D, shortest) on the 4-node scenario
ScenarioShortest ==
    \A p \in DOMAIN rq :
        LET r == rq[p] IN
        (/\ \E acc \in BOOLEAN : ScenarioStore(acc)
         /\ Finished(r)
         /\ r.origin = "A" /\ r.destination = "D"
         /\ r.mode = "shortest" /\ ~r.ada_required)
        => /\ r.out.kind = "returned"
           /\ r.out.total_cost = 55000000
           /\ r.out.path \in { <<"A", "B", "D">>, <<"A", "C", "D">> }

\* C21: a relaxation whose new cost equals the best-known cost of the
\* neighbour changes neither its cost nor its predecessor and pushes nothing,
\* so the path found first is kept; on the 4-node scenario in shortest mode
\* compute_route(A, D) returns 550.0 with [A, B, D] or [A, C, D].
C21_TieKeepsFirstPath ==
    [][TieKeepsFirst]_vars /\ []ScenarioShortest

\* An arc of equal cost has been relaxed and the first path kept: the node
\* popped last has an arc to v that costs exactly what v is known to cost,
\* and v keeps another predecessor.
C21_Witness ==
    \E p \in DOMAIN rq :
        LET r == rq[p]
            u == r.item.node_id
        IN  /\ r.pc = "search" /\ u \in DOMAIN r.adj /\ u \in DOMAIN r.dist
            /\ ~Stale(r.item, r.dist)
            /\ \E k \in 1..Len(r.adj[u]) :
                   LET v == r.adj[u][k][1]
                   IN  /\ v \in DOMAIN r.dist /\ v # u /\ v # r.origin
                       /\ r.dist[u] + r.adj[u][k][2] = r.dist[v]
                       /\ r.prev[v] # u

\* ------------------------------------------------------------------------
\* C22: termination
\* ------------------------------------------------------------------------

\* Largest number of street documents in a generated store of SpecLive.
MaxLiveEdges == 2

\* The stores of SpecLive: the generated stores of up to MaxLiveEdges streets,
\* the stores of SharedStores, and a store with a self-loop, two parallel
\* two-way streets, a cycle and a street with a score below 0.
LiveStores ==
    { [nodes |-> Intersections({"A", "B", "C"}), edges |-> e] :
          e \in SeqsUpTo(EdgePool, MaxLiveEdges) }
    \cup SharedStores
    \cup { [nodes |-> Intersections({"A", "B", "C"}),
            edges |-> << PoolStreet("Main St"), PoolStreet("Pine St"),
                         PoolStreet("Pine St"), PoolStreet("10th St") >>] }

InitLive ==
    /\ \E st \in LiveStores : intersections = st.nodes /\ streets = st.edges
    /\ rq = [p \in Procs |-> IdleRequest]
    /\ bq = <<>>
    /\ clock = 0
    /\ ledger = <<>>
    /\ sq = <<>>
    /\ held = [i \in 1..Len(streets) |-> {streets[i]}]

\* A request that has come in keeps being served: the event loop runs the
\* steps of the coroutine as long as there is one to run.
SpecLive == InitLive /\ [][Next]_vars /\ WF_vars(Next)

\* Why the walk back ends: the origin alone has no predecessor, and the
\* predecessor of any other node is known at a strictly lower cost.
PrevDescends ==
    \A p \in DOMAIN rq :
        LET r == rq[p]
        IN  \A v \in DOMAIN r.prev :
                /\ v \in DOMAIN r.dist
                /\ r.prev[v] = None <=> v = r.origin
                /\ r.prev[v] # None =>
                       r.prev[v] \in DOMAIN r.dist /\ r.dist[r.prev[v]] < r.dist[v]

\* C22: on every snapshot, with cycles, self-loops, parallel arcs and source
\* weights of 0 or below, the search loop empties the queue or reaches the
\* destination and the walk over the predecessors reaches the origin: every
\* route request ends with a result or an error.
C22_RouteTerminates ==
    /\ \A p \in Procs : (rq[p].pc = "nodes") ~> (rq[p].pc = "responded")
    /\ []PrevDescends

\* A search has ended after reaching every node of a snapshot with a
\* self-loop, parallel arcs, cycles and a street whose score is below 0.
C22_Witness ==
    \E p \in Procs :
        LET r == rq[p]
        IN  /\ r.pc = "responded" /\ r.dist # <<>> /\ r.mode = "safest"
            /\ DOMAIN r.dist = {"A", "B", "C"}
            /\ \E u \in DOMAIN r.adj : \E k \in 1..Len(r.adj[u]) : r.adj[u][k][1] = u
            /\ \E u \in DOMAIN r.adj : \E k, l \in 1..Len(r.adj[u]) :
                   k # l /\ r.adj[u][k][1] = r.adj[u][l][1] /\ r.adj[u][k][1] # u
            /\ \E i \in 1..Len(streets) : streets[i].danger_score < 0

\* ------------------------------------------------------------------------
\* C23: lazy deletion
\* ------------------------------------------------------------------------

\* The step of request p pops an entry whose cost exceeds the best-known
\* cost of its node.
PopsStaleEntry(p) ==
    /\ rq[p].pc = "search"
    /\ rq[p].pq # <<>>
    /\ rq'[p] # rq[p]
    /\ Stale(HeapPop(rq[p].pq).item, rq[p].dist)

\* Such a step only removes the entry: no arc is relaxed, nothing is pushed,
\* and the best-cost and predecessor maps stay as they were.
DiscardsStale ==
    \A p \in DOMAIN rq :
        PopsStaleEntry(p) =>
            /\ rq'[p].dist = rq[p].dist
            /\ rq'[p].prev = rq[p].prev
            /\ rq'[p].relaxed = rq[p].relaxed
            /\ rq'[p].pq = HeapPop(rq[p].pq).heap

\* No node has had its outgoing arcs relaxed twice by one request.
RelaxedOnce ==
    \A p \in DOMAIN rq :
        \A i, j \in 1..Len(rq[p].relaxed) :
            rq[p].relaxed[i] = rq[p].relaxed[j] => i = j

\* C23: a popped entry whose cost exceeds the best-known cost of its node is
\* discarded without relaxing an arc and without changing the best-cost or
\* predecessor maps, and the outgoing arcs of each node are relaxed at most
\* once per route request.
C23_StaleEntriesAreDiscarded == [][DiscardsStale]_vars /\ []RelaxedOnce

\* A request has just discarded a stale entry of a node whose arcs it had
\* relaxed before.
C23_Witness ==
    \E p \in DOMAIN rq :
        /\ rq[p].pc = "search"
        /\ Stale(rq[p].item, rq[p].dist)
        /\ \E i \in 1..Len(rq[p].relaxed) : rq[p].relaxed[i] = rq[p].item.node_id

\* ------------------------------------------------------------------------
\* C24: one report does not saturate; repeated reports do not lower
\* ------------------------------------------------------------------------

\* The written score is below 100 when the score read was in [0, 100).
StaysBelowMax(q) == q.old_score >= 0 /\ q.old_score < MaxScore => q.new_score < MaxScore

\* The written score is not below the score read when that was below the
\* severity.
NotLowered(q) == q.old_score < Target(q) => q.new_score >= q.old_score

\* C24 as stated: from any score in [0, 100) one blend of any severity in
\* 1..100 gives a score strictly below 100, and from a score below the
\* severity every blend of that severity gives a score that is not lower.
C24_BlendStaysBelowMaxAndRises ==
    \A b \in DOMAIN bq :
        LET q == bq[b]
        IN  HasWritten(q) => StaysBelowMax(q) /\ NotLowered(q)

\* C24, amended: the same for a score of at most two decimals, which every
\* score written by a blend is.
C24_BlendStaysBelowMaxAndRisesFromTwoDecimals ==
    \A b \in DOMAIN bq :
        LET q == bq[b]
        IN  HasWritten(q) /\ q.old_score % 1000 = 0
                => StaysBelowMax(q) /\ NotLowered(q)

\* The third report of severity 100 on a street that started at 45.0 has
\* raised the score again, and it is still below 100.
C24_Witness ==
    \E b \in DOMAIN bq :
        LET q == bq[b]
        IN  /\ HasWritten(q) /\ q.runs = MaxRepeats
            /\ q.severity = MaxSeverity
            /\ held[1] \cap {FifthAvenue(4500000)} # {}
            /\ q.old_score % 1000 = 0
            /\ q.new_score > q.old_score
            /\ q.new_score < MaxScore

\* ------------------------------------------------------------------------
\* app/services/dijkstra.py: the routing copy without accessibility filtering
\* ------------------------------------------------------------------------

\* weight = edge["danger_score"] if mode == "safest" else edge["distance_m"];
\* weight = max(weight, 0.01)
ServicesWeight(edge, mode) ==
    LET weight == IF mode = "safest" THEN edge.danger_score ELSE edge.distance_m
    IN  IF weight > MinWeight THEN weight ELSE MinWeight

\* Lines 58-63: the arcs of one street document, the i-th that find() yields.
ServicesAddEdge(adj, edge, i, mode) ==
    LET weight == ServicesWeight(edge, mode)
        start  == edge.start_intersection_id
        end    == edge.end_intersection_id
        adj1   == AppendArc(adj, start, <<end, weight, i>>)
    IN  IF Get(edge, "bidirectional", TRUE)
        THEN AppendArc(adj1, end, <<start, weight, i>>)
        ELSE adj1

\* async for edge in s_col.find()
RECURSIVE ServicesReadStreets(_, _, _, _)
ServicesReadStreets(adj, docs, i, mode) ==
    IF i > Len(docs) THEN adj
    ELSE ServicesReadStreets(ServicesAddEdge(adj, docs[i], i, mode), docs, i + 1, mode)

\* build_adjacency_list(mode) of app/services/dijkstra.py: (adj, coords)
services_build_adjacency_list(nodeDocs, streetDocs, mode) ==
    [adj    |-> ServicesReadStreets([n \in DOMAIN nodeDocs |-> <<>>], streetDocs, 1, mode),
     coords |-> nodeDocs]

\* new_cost < dist.get(neighbour, float("inf"))
ServicesImproves(new_cost, dist, neighbour) ==
    IF neighbour \in DOMAIN dist THEN new_cost < dist[neighbour] ELSE TRUE

\* Lines 118-122: one iteration of the loop over adj.get(u, [])
ServicesRelaxArc(s, u, arc) ==
    LET neighbour == arc[1]
        new_cost  == s.dist[u] + arc[2]
    IN  IF ServicesImproves(new_cost, s.dist, neighbour)
        THEN [dist |-> Put(s.dist, neighbour, new_cost),
              prev |-> Put(s.prev, neighbour, u),
              pq   |-> HeapPush(s.pq, QueueItem(new_cost, neighbour))]
        ELSE s

RECURSIVE ServicesRelaxAll(_, _, _, _)
ServicesRelaxAll(s, u, arcs, k) ==
    IF k > Len(arcs) THEN s
    ELSE ServicesRelaxAll(ServicesRelaxArc(s, u, arcs[k]), u, arcs, k + 1)

\* Lines 107-122: the while loop, from search state s to the state it leaves.
RECURSIVE ServicesSearchLoop(_, _, _)
ServicesSearchLoop(s, adj, end_id) ==
    IF s.pq = <<>> THEN s
    ELSE LET popped == HeapPop(s.pq)
             item   == popped.item
             u      == item.node_id
             rest   == [s EXCEPT !.pq = popped.heap]
         IN  IF u = end_id THEN rest
             ELSE IF u \in DOMAIN s.dist /\ item.cost > s.dist[u]
             THEN ServicesSearchLoop(rest, adj, end_id)
             ELSE ServicesSearchLoop(
                      ServicesRelaxAll(rest, u, IF u \in DOMAIN adj THEN adj[u] ELSE <<>>, 1),
                      adj, end_id)

\* What dijkstra raises.
ServicesRaised(error, msg) == [kind |-> "raised", error |-> error, msg |-> msg]

\* Lines 124-141: the error or the dict that dijkstra ends with.
ServicesResult(start_id, end_id, mode, coords, s) ==
    IF end_id \notin DOMAIN s.prev
    THEN ServicesRaised("ValueError", <<"No path exists between", start_id, "and", end_id>>)
    ELSE LET path_ids == Reverse(WalkBack(s.prev, end_id, <<>>))
             missing  == { k \in 1..Len(path_ids) : path_ids[k] \notin DOMAIN coords }
         IN  IF missing # {}
             THEN ServicesRaised("KeyError",
                                 <<path_ids[CHOOSE k \in missing : \A j \in missing : k <= j]>>)
             ELSE [kind |-> "returned",
                   path |-> path_ids,
                   coordinates |-> [k \in 1..Len(path_ids) |-> coords[path_ids[k]]],
                   total_cost |-> Round4(s.dist[end_id]),
                   mode |-> mode]

\* dijkstra(start_id, end_id, mode) on one read of the store
dijkstra(nodeDocs, streetDocs, start_id, end_id, mode) ==
    LET g == services_build_adjacency_list(nodeDocs, streetDocs, mode)
    IN  IF start_id \notin DOMAIN g.adj
        THEN ServicesRaised("ValueError", <<"Start node", start_id, "not found in graph">>)
        ELSE IF end_id \notin DOMAIN g.adj
        THEN ServicesRaised("ValueError", <<"End node", end_id, "not found in graph">>)
        ELSE ServicesResult(start_id, end_id, mode, g.coords,
                            ServicesSearchLoop([dist |-> (start_id :> 0),
                                                prev |-> (start_id :> None),
                                                pq   |-> <<QueueItem(0, start_id)>>],
                                               g.adj, end_id))

\* ------------------------------------------------------------------------
\* C25: the two routing implementations agree
\* ------------------------------------------------------------------------

\* The kind of failure of an outcome of either implementation.
ErrorKind(out) ==
    IF out.kind # "raised" THEN "none"
    ELSE IF out.error # "ValueError" THEN out.error
    ELSE IF out.msg[1] \in {"Origin node", "Destination node", "Start node", "End node"}
    THEN "node not found"
    ELSE "no path"

\* Outcome o of compute_route and outcome d of dijkstra are the same failure,
\* or the same path, coordinates, total_cost and mode.
Agree(o, d) ==
    /\ ErrorKind(o) = ErrorKind(d)
    /\ (o.kind = "returned") = (d.kind = "returned")
    /\ o.kind = "returned" =>
          /\ o.path = d.path
          /\ o.coordinates = d.coordinates
          /\ o.total_cost = d.total_cost
          /\ o.mode = d.mode
          /\ o.ada_required = FALSE
          /\ o.hazards_bypassed = 0

\* C25: for every store, origin, destination and mode, dijkstra(start, end,
\* mode) and compute_route(origin, destination, mode, ada_required=False)
\* fail with the same kind of error or return the same path, coordinates,
\* total_cost and mode, compute_route adding ada_required = false and
\* hazards_bypassed = 0.
C25_ImplementationsAgree ==
    \A p \in DOMAIN rq :
        LET r == rq[p]
        IN  r.pc \in {"done", "responded"} /\ ~r.ada_required =>
                Agree(r.out, dijkstra(intersections, streets, r.origin, r.destination, r.mode))

\* Both have returned the same path of three nodes or more over a store with
\* a street that is not accessible.
C25_Witness ==
    \E p \in DOMAIN rq :
        LET r == rq[p]
            d == dijkstra(intersections, streets, r.origin, r.destination, r.mode)
        IN  /\ r.pc = "responded" /\ ~r.ada_required
            /\ r.out.kind = "returned" /\ d.kind = "returned"
            /\ d.path = r.out.path /\ Len(d.path) >= 3
            /\ \E i \in 1..Len(streets) : ~Get(streets[i], "is_accessible", TRUE)

\* ------------------------------------------------------------------------
\* engines/blockchain.py: the ledger
\* ------------------------------------------------------------------------

\* "0" * 64
ZeroHashLength == 64

GenesisHash == [i \in 1..ZeroHashLength |-> "0"]

\* hashlib.sha256(f"{entry_type}|{description}|{prev_hash}|{ts}").hexdigest():
\* the digest stands for the payload it was computed from (no two payloads
\* share a digest).
compute_hash(entry_type, description, prev_hash, ts) ==
    <<entry_type, description, prev_hash, ts>>

\* col.find_one(sort=[("timestamp", -1)])
FindLatest(docs) ==
    CHOOSE i \in 1..Len(docs) : \A j \in 1..Len(docs) : docs[j].timestamp <= docs[i].timestamp

\* _get_prev_hash: tx_hash of the latest record, or 64 zeros
get_prev_hash(docs) ==
    IF docs # <<>> /\ "tx_hash" \in DOMAIN docs[FindLatest(docs)]
    THEN docs[FindLatest(docs)].tx_hash
    ELSE GenesisHash

\* Lines 74-82: the record of log_entry; data is the payload of the request.
LedgerRecord(q, data) ==
    [timestamp   |-> q.now,
     entry_type  |-> q.entry_type,
     description |-> q.description,
     data        |-> data,
     tx_hash     |-> compute_hash(q.entry_type, q.description, q.prev_hash, q.now),
     prev_hash   |-> q.prev_hash]

\* ------------------------------------------------------------------------
\* main.py: sos_trigger and ledger_log
\* ------------------------------------------------------------------------

Callers == {"s1", "s2"}

\* What initiate_emergency_call returns as "status".
CallStatuses == {"skipped", "initiated", "failed"}

IdleCaller ==
    [pc |-> "idle", handler |-> "", audio_ok |-> FALSE, call |-> "", call_ok |-> FALSE,
     dispatch_text |-> "", entry_type |-> "", description |-> "",
     now |-> 0, prev_hash |-> GenesisHash, status |-> "", http |-> 0]

\* POST /api/sos/trigger: dispatch_text = ""; audio_ok = False; call_ok = False
SosTrigger(s) ==
    /\ sq[s].pc = "idle"
    /\ sq' = [sq EXCEPT ![s] = [@ EXCEPT !.pc = "tts", !.handler = "sos_trigger"]]
    /\ UNCHANGED <<intersections, streets, rq, bq, clock, held, ledger>>

\* generate_tts_audio returns the audio: audio_ok = True
TtsReturns(s) ==
    /\ sq[s].pc = "tts"
    /\ sq' = [sq EXCEPT ![s] = [@ EXCEPT !.pc = "call", !.audio_ok = TRUE]]
    /\ UNCHANGED <<intersections, streets, rq, bq, clock, held, ledger>>

\* generate_tts_audio raises RuntimeError (no API key, empty audio), which
\* sos_trigger catches and logs.
TtsRaisesRuntimeError(s) ==
    /\ sq[s].pc = "tts"
    /\ sq' = [sq EXCEPT ![s] = [@ EXCEPT !.pc = "call"]]
    /\ UNCHANGED <<intersections, streets, rq, bq, clock, held, ledger>>

\* generate_tts_audio raises something else (the import of elevenlabs fails,
\* the client raises its ApiError or a network error): nothing catches it,
\* and the request ends with status 500.
TtsRaisesOther(s) ==
    /\ sq[s].pc = "tts"
    /\ sq' = [sq EXCEPT ![s] = [@ EXCEPT !.pc = "done", !.http = 500]]
    /\ UNCHANGED <<intersections, streets, rq, bq, clock, held, ledger>>

\* call_result = await initiate_emergency_call(...); the log_entry call follows
InitiateCall(s, status) ==
    /\ sq[s].pc = "call"
    /\ sq' = [sq EXCEPT ![s] =
                 [@ EXCEPT !.pc = "log", !.call = status,
                           !.call_ok = (status = "initiated"),
                           !.dispatch_text = IF status = "failed" THEN "" ELSE "Emergency.",
                           !.entry_type = "ALERT_LOGGED",
                           !.description = "SOS triggered at"]]
    /\ UNCHANGED <<intersections, streets, rq, bq, clock, held, ledger>>

\* POST /api/ledger/log
LedgerLog(s) ==
    /\ sq[s].pc = "idle"
    /\ sq' = [sq EXCEPT ![s] = [@ EXCEPT !.pc = "log", !.handler = "ledger_log",
                                         !.entry_type = "RECORD_LOGGED",
                                         !.description = "record"]]
    /\ UNCHANGED <<intersections, streets, rq, bq, clock, held, ledger>>

\* log_entry: now = datetime.now(timezone.utc)
LogEntryNow(s) ==
    /\ sq[s].pc = "log"
    /\ clock' = clock + 1
    /\ sq' = [sq EXCEPT ![s] = [@ EXCEPT !.pc = "find", !.now = clock']]
    /\ UNCHANGED <<intersections, streets, rq, bq, held, ledger>>

\* prev_hash = await _get_prev_hash()
GetPrevHash(s) ==
    /\ sq[s].pc = "find"
    /\ sq' = [sq EXCEPT ![s] = [@ EXCEPT !.pc = "insert",
                                         !.prev_hash = get_prev_hash(ledger)]]
    /\ UNCHANGED <<intersections, streets, rq, bq, clock, held, ledger>>

\* result = await col.insert_one(record)
InsertOne(s) ==
    /\ sq[s].pc = "insert"
    /\ ledger' = Append(ledger, LedgerRecord(sq[s], s))
    /\ sq' = [sq EXCEPT ![s] = [@ EXCEPT !.pc = "return"]]
    /\ UNCHANGED <<intersections, streets, rq, bq, clock, held>>

\* return SOSResponse(status="dispatched", ...) / return record
LogReturn(s) ==
    /\ sq[s].pc = "return"
    /\ sq' = [sq EXCEPT ![s] =
                 [@ EXCEPT !.pc = "done", !.http = 200,
                           !.status = IF sq[s].handler = "sos_trigger"
                                      THEN "dispatched" ELSE ""]]
    /\ UNCHANGED <<intersections, streets, rq, bq, clock, held, ledger>>

InitLedger ==
    /\ intersections = <<>>
    /\ streets = <<>>
    /\ rq = <<>>
    /\ bq = <<>>
    /\ clock = 0
    /\ held = <<>>
    /\ ledger = <<>>
    /\ sq = [s \in Callers |-> IdleCaller]

\* Each slot serves one request; the steps of different requests interleave
\* at every await.
NextLedger ==
    \E s \in Callers :
        \/ SosTrigger(s)
        \/ TtsReturns(s)
        \/ TtsRaisesRuntimeError(s)
        \/ TtsRaisesOther(s)
        \/ \E status \in CallStatuses : InitiateCall(s, status)
        \/ LedgerLog(s)
        \/ LogEntryNow(s)
        \/ GetPrevHash(s)
        \/ InsertOne(s)
        \/ LogReturn(s)

SpecLedger == InitLedger /\ [][NextLedger]_vars

\* ------------------------------------------------------------------------
\* C26: the ledger is one chain
\* ------------------------------------------------------------------------

\* No log_entry call is under way.
NoCallUnderWay == \A s \in DOMAIN sq : sq[s].pc \in {"idle", "done"}

\* The records with a timestamp before that of docs[i].
Before(docs, i) == { j \in 1..Len(docs) : docs[j].timestamp < docs[i].timestamp }

\* The record immediately before docs[i] in the order of the timestamps.
Predecessor(docs, i) ==
    CHOOSE j \in Before(docs, i) :
        \A k \in Before(docs, i) : docs[k].timestamp <= docs[j].timestamp

\* Ordered by timestamp the records form one chain.
IsChain(docs) ==
    /\ \A i \in 1..Len(docs) :
          IF Before(docs, i) = {}
          THEN docs[i].prev_hash = GenesisHash
          ELSE docs[i].prev_hash = docs[Predecessor(docs, i)].tx_hash
    /\ \A i, j \in 1..Len(docs) : docs[i].prev_hash = docs[j].prev_hash => i = j

\* C26: after any set of log_entry calls, overlapping ones included, the
\* records ordered by timestamp form one chain: the earliest has 64 zeros as
\* prev_hash, every other one has the tx_hash of the record immediately
\* before it, and no two records share a prev_hash.
C26_LedgerIsOneChain == NoCallUnderWay => IsChain(ledger)

\* ------------------------------------------------------------------------
\* C27: the SOS trigger goes on after the text-to-speech step
\* ------------------------------------------------------------------------

\* The ALERT_LOGGED records that request s has appended.
AlertsLoggedBy(s) ==
    { i \in 1..Len(ledger) : ledger[i].data = s /\ ledger[i].entry_type = "ALERT_LOGGED" }

\* C27: every SOS trigger request, whatever the text-to-speech step ended
\* with, has attempted the emergency call and appended exactly one
\* ALERT_LOGGED record when it responds, and responds with status
\* "dispatched".
C27_SosAlwaysCallsAndLogs ==
    \A s \in DOMAIN sq :
        sq[s].handler = "sos_trigger" /\ sq[s].pc = "done" =>
            /\ sq[s].call \in CallStatuses
            /\ Cardinality(AlertsLoggedBy(s)) = 1
            /\ sq[s].status = "dispatched"

\* What does hold: a request that got past the text-to-speech step (audio or
\* a caught RuntimeError) has attempted the call, appended one ALERT_LOGGED
\* record and answers "dispatched".
SosCallsAndLogsWhenTtsIsCaught ==
    \A s \in DOMAIN sq :
        sq[s].handler = "sos_trigger" /\ sq[s].pc = "done" /\ sq[s].http = 200 =>
            /\ sq[s].call \in CallStatuses
            /\ Cardinality(AlertsLoggedBy(s)) = 1
            /\ sq[s].status = "dispatched"

\* ------------------------------------------------------------------------
\* C28: the outcomes of compute_route
\* ------------------------------------------------------------------------

\* C28: compute_route ends in one of three ways for every store and every
\* argument: a path, the node-not-found error or the no-path error; and every
\* id on a returned path has coordinates, also when street documents name
\* endpoints that have no intersection document.
C28_ThreeOutcomes ==
    \A p \in DOMAIN rq :
        LET r == rq[p]
        IN  r.pc \in {"done", "responded"} =>
                /\ \/ r.out.kind = "returned"
                   \/ IsNodeNotFound(r.out)
                   \/ IsNoPathExists(r.out)
                /\ r.out.kind = "returned" =>
                       \A k \in 1..Len(r.out.path) : r.out.path[k] \in DOMAIN r.coords

\* ------------------------------------------------------------------------
\* C29: the exit at the destination
\* ------------------------------------------------------------------------

\* The step of request p leaves the loop through the break at the destination.
BreaksAtDestination(p) ==
    /\ rq[p].pc = "search"
    /\ rq[p].pq # <<>>
    /\ rq'[p].pc = "rebuild"

\* The entry popped at the break is not stale: its cost is the best-known
\* cost of the destination, and no entry left in the queue costs less.
ExitsOnBestEntry ==
    \A p \in DOMAIN rq :
        BreaksAtDestination(p) =>
            LET item == HeapPop(rq[p].pq).item
            IN  /\ item.node_id = rq[p].destination
                /\ rq'[p].item = item
                /\ ~Stale(item, rq[p].dist)
                /\ item.cost = rq[p].dist[rq[p].destination]
                /\ \A k \in 1..Len(rq'[p].pq) : item.cost <= rq'[p].pq[k].cost

\* C29: the loop never exits on a stale entry: whenever it breaks at the
\* destination, the cost of the popped entry equals the best-known cost of
\* the destination and is less than or equal to the cost of every entry
\* still in the queue.
C29_NeverExitsOnStaleEntry == [][ExitsOnBestEntry]_vars

\* The loop has broken at the destination while a stale entry of the
\* destination, pushed before a cheaper way to it was found, is still queued.
C29_Witness ==
    \E p \in DOMAIN rq :
        LET r == rq[p]
        IN  /\ r.pc = "rebuild"
            /\ r.item.node_id = r.destination
            /\ r.item.cost = r.dist[r.destination]
            /\ \E k \in 1..Len(r.pq) :
                  r.pq[k].node_id = r.destination /\ r.pq[k].cost > r.item.cost

\* ------------------------------------------------------------------------
\* C30: hazard blends and shortest-mode routing
\* ------------------------------------------------------------------------

\* A shortest-mode request, then incident reports, then the same request
\* again.
InitFrame ==
    /\ \E st \in SharedStores : intersections = st.nodes /\ streets = st.edges
    /\ rq = [p \in {"r1", "r2"} |-> IdleRequest]
    /\ bq = [b \in {"b1", "b2"} |-> IdleBlend]
    /\ clock = 0
    /\ ledger = <<>>
    /\ sq = <<>>
    /\ held = [i \in 1..Len(streets) |-> {streets[i]}]

NextFrame ==
    \/ \E o \in {"A", "D"}, d \in Ids, a \in BOOLEAN :
          RouteRequest("r1", o, d, "shortest", a)
    \/ /\ rq["r1"].pc = "responded"
       /\ RouteRequest("r2", rq["r1"].origin, rq["r1"].destination, "shortest",
                       rq["r1"].ada_required)
    \/ \E p \in DOMAIN rq : RouteStep(p)
    \/ /\ rq["r1"].pc = "responded"
       /\ rq["r2"].pc = "idle"
       /\ \E b \in DOMAIN bq :
             \/ \E pattern \in {"St.", "main st"}, s \in ReportedSeverities :
                   /\ bq[b].pc = "idle"
                   /\ UpdateDangerScores(b, pattern, s)
             \/ BlendFind(b)
             \/ BlendUpdateOne(b)
             \/ BlendReturn(b)

SpecFrame == InitFrame /\ [][NextFrame]_vars

\* The fields of a street that a blend does not set.
FieldsNotSet(edge) == [k \in DOMAIN edge \ {"danger_score", "updated_at"} |-> edge[k]]

\* Every record the store has held for a street differs from the others in
\* danger_score and updated_at only.
OnlyScoreChanged ==
    \A i \in 1..Len(streets) : \A doc \in held[i] :
        FieldsNotSet(doc) = FieldsNotSet(streets[i])

\* C30: hazard blends never affect shortest-mode routing: two requests with
\* mode "shortest" and the same origin, destination and ada flag, with any
\* sequence of blends between them, have the same outcome (the same path and
\* total cost, or the same error), a blend changing only the danger_score and
\* updated_at of streets.
C30_BlendsLeaveShortestRoutes ==
    /\ OnlyScoreChanged
    /\ \A p, o \in DOMAIN rq :
          /\ Finished(rq[p]) /\ Finished(rq[o])
          /\ rq[p].mode = "shortest" /\ rq[o].mode = "shortest"
          /\ rq[p].origin = rq[o].origin /\ rq[p].destination = rq[o].destination
          /\ rq[p].ada_required = rq[o].ada_required
          => rq[p].out = rq[o].out

\* Both requests have returned the same path, and between them two reports
\* have changed the score of a street on it.
C30_Witness ==
    LET r1 == rq["r1"]
        r2 == rq["r2"]
    IN  /\ DOMAIN rq = {"r1", "r2"}
        /\ Returned(r1) /\ Returned(r2) /\ r2.pc = "responded"
        /\ r1.out = r2.out
        /\ \E i \in 1..Len(streets) : \E k \in 1..(Len(r2.out.path) - 1) :
              /\ Cardinality({ doc.danger_score : doc \in held[i] }) > 2
              /\ {streets[i].start_intersection_id, streets[i].end_intersection_id}
                     = {r2.out.path[k], r2.out.path[k + 1]}

====
